---- MODULE Spec2Model ----
(***************************************************************************)
(* State-machine model of the daily email-summary pipeline:               *)
(*   services/summaryService.js  (createDailySummary and its helpers)     *)
(*   services/emailService.js    (getEmailsForSummary,                    *)
(*                                markEmailsAsSummarized, email storage)  *)
(*   config/openai.js            (generateSummary / categorizeEmails, in  *)
(*                                both implementations the repository     *)
(*                                holds)                                  *)
(*   models/summary.js, models/email.js (collections, unique indexes)     *)
(*   scripts: custom-time-window summary (main, saveSummaryToDatabase)    *)
(*   services/summaryService.js  (distributeSummary)                      *)
(*   services/notificationService.js (sendEmail, in both implementations  *)
(*                                the repository holds)                   *)
(*   scripts: newsletter summary (generateNewsletterSummary,              *)
(*                                sendSummaryEmail)                       *)
(*                                                                         *)
(* Time is counted in minutes.  Every `await` of a handler is a point     *)
(* where other handlers may run, so each handler is a small process whose *)
(* steps are the stretches of code between two awaits.                    *)
(***************************************************************************)
EXTENDS Integers, Sequences, FiniteSets, TLC

----------------------------------------------------------------------------
(* Bounds of the model *)

MaxMsgs == 2            \* stored-message identifiers are 1..MaxMsgs
MaxDay == 1             \* calendar days 0..MaxDay
NumRuns == 2            \* concurrent createDailySummary callers
MaxInvocations == 2     \* total createDailySummary invocations explored
MaxBatchSetting == 1    \* EMAILS_BATCH_SIZE settings 0 (unset) .. MaxBatchSetting
MaxScriptRuns == 1      \* invocations of the custom-time-window script
NumDist == 2            \* concurrent distributeSummary callers
MaxDistCalls == 3       \* total distributeSummary invocations explored
MaxListLen == 4         \* processBatches is applied to lists of 0..MaxListLen messages
MaxBatchSize == 3       \* ... with batch sizes 1..MaxBatchSize
MaxTextLen == 4         \* category parsing is applied to texts of 0..MaxTextLen characters
MaxOpenaiCalls == 3     \* generateSummary / categorizeEmails calls explored
NumFetch == 2           \* concurrent fetchEmails callers
MaxFetchRuns == 3       \* total fetchEmails invocations explored
MaxMailbox == 2         \* the mailbox lists up to MaxMailbox message ids
MaxNegativeSetting == 2 \* EMAILS_BATCH_SIZE settings down to -MaxNegativeSetting
MaxTurns == 8           \* turns of the partition loop explored

(* Program constants *)

MinutesPerDay == 1440
DefaultBatchSize == 50
ScriptDefaultBatchSize == 10
WindowStartMinute == 435     \* 7:15 am
WindowEndMinute == 405       \* 6:45 am
NewsletterDaysBack == 7      \* daysBack default of the newsletter script
NoDate == 0 - 1              \* a Date field that was never set
DefaultRecipient == "jraizon@gmail.com"

MsgIds == 1..MaxMsgs
Procs == 1..NumRuns
DayOffsets == {0, 720}       \* sampled times of day: midnight and noon
TimePoints == {d * MinutesPerDay + o : d \in 0..MaxDay, o \in DayOffsets}
BatchSizeSettings == 0..MaxBatchSetting
DistProcs == 1..NumDist
DigestIdSpace == 1..(MaxInvocations + MaxScriptRuns + 1)
Recipients == {"", "to@example.com"}

VARIABLES
    now,            \* wall clock (new Date())
    openaiModule,   \* which config/openai implementation is loaded
    apiKeyValid,    \* apiKeyValid of the fallback implementation
    envBatchSize,   \* process.env.EMAILS_BATCH_SIZE (0: unset / not a number)
    emails,         \* the Email collection, by _id
    summaries,      \* the Summary collection, in insertion order (_id = index)
    run,            \* the createDailySummary invocations
    invocations,    \* number of createDailySummary invocations so far
    script,         \* the custom-time-window script process
    scriptRuns,     \* number of script invocations so far
    recipientEmail,     \* process.env.SUMMARY_RECIPIENT_EMAIL ("": not set)
    notificationModule, \* which services/notificationService is loaded
    nodeEnv,            \* process.env.NODE_ENV
    resendApiKey,       \* whether process.env.RESEND_API_KEY is set
    dist,           \* the distributeSummary invocations
    distCalls,      \* number of distributeSummary invocations so far
    sendCalls,      \* sendEmail calls made by distributeSummary, per Digest _id
    newsletter,     \* the newsletter-summary script process
    partition,      \* a processBatches partition call: arguments and result
    parse,          \* a category-parsing call: text and result
    openaiCalls,    \* the generateSummary / categorizeEmails calls made so far
    query,          \* the last getEmailsForSummary call: arguments and result
    update,         \* the last markEmailsAsSummarized call: ids and result
    mailbox,        \* the ids gmail.users.messages.list returns, in order
    emailDocs,      \* the Email collection as fetchEmails sees it: the
                    \* messageId of each document, in insertion order
    fetch,          \* the fetchEmails invocations
    fetchRuns,      \* number of fetchEmails invocations so far
    route,          \* POST /generate: requests received, responses sent, and
                    \* the last response
    job,            \* a startEmailSummaryJob run and the handler that started it
    loop            \* the partition loop of processBatches, turn by turn

pipelineVars == <<now, openaiModule, apiKeyValid, envBatchSize, emails,
                  summaries, run, invocations, script, scriptRuns>>

distVars == <<recipientEmail, notificationModule, nodeEnv, resendApiKey, dist,
              distCalls, sendCalls, newsletter>>

fnVars == <<partition, parse, openaiCalls>>

serviceVars == <<query, update, mailbox, emailDocs, fetch, fetchRuns, route,
                 job, loop>>

vars == <<pipelineVars, distVars, fnVars, serviceVars>>

----------------------------------------------------------------------------
(* Dates *)

\* startDate.setHours(0, 0, 0, 0)
StartOfDay(t) == t - (t % MinutesPerDay)

\* endDate.setHours(23, 59, 59, 999)
EndOfDay(t) == StartOfDay(t) + MinutesPerDay - 1

----------------------------------------------------------------------------
(* Generated texts.  A text is known by what produced it (the provider,  *)
(* the mock branch, the fallback branch) and by the number of items (mails *)
(* of a batch, batch summaries of a merge) of the prompt it answers.       *)

SummaryText(input) == [kind |-> "summary", items |-> Len(input)]
MockSummaryText == [kind |-> "mock", items |-> 0]
ErrorText == [kind |-> "errortext", items |-> 0]

\* config/openai generateSummary, strict implementation: the provider's
\* answer on success, a rejection ("throw") on failure.
GenerateSummaryThrowing(input, backendOk) ==
    IF backendOk THEN [threw |-> FALSE, text |-> SummaryText(input)]
    ELSE [threw |-> TRUE, text |-> ErrorText]

\* generateSummary of the implementation with initOpenAI: never rejects; a
\* mock text without a valid key, a fallback text when the provider fails.
GenerateSummaryFallback(input, backendOk, keyValid) ==
    IF ~keyValid THEN [threw |-> FALSE, text |-> MockSummaryText]
    ELSE IF backendOk THEN [threw |-> FALSE, text |-> SummaryText(input)]
    ELSE [threw |-> FALSE, text |-> ErrorText]

GenerateSummary(input, backendOk) ==
    IF openaiModule = "throwing"
    THEN GenerateSummaryThrowing(input, backendOk)
    ELSE GenerateSummaryFallback(input, backendOk, apiKeyValid)

\* Categorization texts are sequences of characters; "\n" ends a line.
CategorizationText == <<"W", ":", " ", "m", "\n", "\n", " ", "P", " ">>
MockCategorizationText == <<"T", ":", "a", "\n", " ", "B", ":", "b">>

CategorizeEmailsThrowing(backendOk) ==
    IF backendOk THEN [threw |-> FALSE, text |-> CategorizationText]
    ELSE [threw |-> TRUE, text |-> <<>>]

CategorizeEmailsFallback(backendOk, keyValid) ==
    IF ~keyValid THEN [threw |-> FALSE, text |-> MockCategorizationText]
    ELSE IF backendOk THEN [threw |-> FALSE, text |-> CategorizationText]
    ELSE [threw |-> FALSE, text |-> MockCategorizationText]

CategorizeEmails(backendOk) ==
    IF openaiModule = "throwing"
    THEN CategorizeEmailsThrowing(backendOk)
    ELSE CategorizeEmailsFallback(backendOk, apiKeyValid)

----------------------------------------------------------------------------
(* Category parsing (generateCombinedSummary) *)

RECURSIVE Split(_, _, _, _)
\* String.prototype.split(sep): cur is the piece being read
Split(s, sep, cur, acc) ==
    IF s = <<>> THEN Append(acc, cur)
    ELSE IF Head(s) = sep THEN Split(Tail(s), sep, <<>>, Append(acc, cur))
    ELSE Split(Tail(s), sep, Append(cur, Head(s)), acc)

RECURSIVE TrimLeft(_)
TrimLeft(s) ==
    IF s # <<>> /\ Head(s) \in {" ", "\n"} THEN TrimLeft(Tail(s)) ELSE s

RECURSIVE TrimRight(_)
TrimRight(s) ==
    IF s # <<>> /\ s[Len(s)] \in {" ", "\n"}
    THEN TrimRight(SubSeq(s, 1, Len(s) - 1)) ELSE s

Trim(s) == TrimRight(TrimLeft(s))

Includes(s, c) == \E k \in 1..Len(s) : s[k] = c

\* CategoryOfLine that names every category by its whole line
CategoryOfLine_NameIsLine(line) ==
    [name |-> Trim(line), description |-> Trim(line)]

\* line => ({ name: line.includes(':') ? line.split(':')[0].trim()
\*                                      : line.trim(),
\*            description: line.trim() })
CategoryOfLine(line) ==
    [name |-> IF Includes(line, ":") THEN Trim(Split(line, ":", <<>>, <<>>)[1])
              ELSE Trim(line),
     description |-> Trim(line)]

RECURSIVE CategoriesOfLines(_)
CategoriesOfLines(lines) ==
    IF lines = <<>> THEN <<>>
    ELSE IF Len(Trim(Head(lines))) > 0
         THEN <<CategoryOfLine(Head(lines))>> \o CategoriesOfLines(Tail(lines))
         ELSE CategoriesOfLines(Tail(lines))

ParseCategories(text) == CategoriesOfLines(Split(text, "\n", <<>>, <<>>))

----------------------------------------------------------------------------
(* Collections *)

NoEmail == [stored |-> FALSE, receivedAt |-> 0, isSummarized |-> FALSE]

Range(s) == {s[k] : k \in 1..Len(s)}

\* MatchingUnsummarized without the isSummarized: false condition
MatchingUnsummarized_AnyFlag(startDate, endDate) ==
    {m \in MsgIds : /\ emails[m].stored
                    /\ emails[m].receivedAt >= startDate
                    /\ emails[m].receivedAt <= endDate}

\* Email.find({receivedAt: {$gte, $lte}, isSummarized: false}): the matches
MatchingUnsummarized(startDate, endDate) ==
    {m \in MsgIds : /\ emails[m].stored
                    /\ emails[m].receivedAt >= startDate
                    /\ emails[m].receivedAt <= endDate
                    /\ ~emails[m].isSummarized}

\* Email.find({receivedAt: {$gte, $lte}}) of the custom-time-window script
MatchingWindow(startDate, endDate) ==
    {m \in MsgIds : /\ emails[m].stored
                    /\ emails[m].receivedAt >= startDate
                    /\ emails[m].receivedAt <= endDate}

\* .sort({receivedAt: 1}): every order of the set that ascends in receivedAt
\* (the order of equal keys is the store's choice)
SortedByReceivedAt(S) ==
    {s \in [1..Cardinality(S) -> S] :
        /\ \A a, b \in 1..Cardinality(S) : a # b => s[a] # s[b]
        /\ \A a, b \in 1..Cardinality(S) :
              a < b => emails[s[a]].receivedAt <= emails[s[b]].receivedAt}

\* Summary.findOne({date}): the _id of the match, 0 when there is none
FindSummaryByDate(d) ==
    IF \E k \in 1..Len(summaries) : summaries[k].date = d
    THEN CHOOSE k \in 1..Len(summaries) : summaries[k].date = d
    ELSE 0

\* DuplicateDate without the unique index: no save is ever rejected
DuplicateDate_NoIndex(d) == FALSE

\* the unique index on date (models/summary.js): save of a new document
DuplicateDate(d) == \E k \in 1..Len(summaries) : summaries[k].date = d

\* NewSummary that lists only the messages before the last one fetched
NewSummary_DropsLast(date, content, topicCategories, emailSeq, metadata) ==
    [date |-> date, content |-> content, topicCategories |-> topicCategories,
     emailCount |-> Len(emailSeq),
     emailIds |-> SubSeq(emailSeq, 1, Len(emailSeq) - 1),
     metadata |-> metadata, isDistributed |-> FALSE,
     distributedAt |-> NoDate, distributionRecipients |-> <<>>]

\* new Summary({date, content, topicCategories, emailCount: emails.length,
\* emailIds: emails.map(email => email._id)})
NewSummary(date, content, topicCategories, emailSeq, metadata) ==
    [date |-> date, content |-> content, topicCategories |-> topicCategories,
     emailCount |-> Len(emailSeq), emailIds |-> emailSeq,
     metadata |-> metadata, isDistributed |-> FALSE,
     distributedAt |-> NoDate, distributionRecipients |-> <<>>]

\* Email.updateMany({_id: {$in: ids}}, {$set: {isSummarized: true}})
MarkSummarized(ids) ==
    [m \in MsgIds |->
        IF m \in ids /\ emails[m].stored
        THEN [emails[m] EXCEPT !.isSummarized = TRUE]
        ELSE emails[m]]

----------------------------------------------------------------------------
(* Batches (processBatches) *)

RECURSIVE Partition_DropsRemainder(_, _, _)
\* Partition that forms full batches only
Partition_DropsRemainder(es, batchSize, i) ==
    IF i + batchSize <= Len(es)
    THEN <<SubSeq(es, i + 1, i + batchSize)>>
         \o Partition_DropsRemainder(es, batchSize, i + batchSize)
    ELSE <<>>

RECURSIVE Partition(_, _, _)
\* for (let i = 0; i < emails.length; i += batchSize)
\*     batches.push(emails.slice(i, i + batchSize))         (i is 0-based)
Partition(es, batchSize, i) ==
    IF i < Len(es)
    THEN <<SubSeq(es, i + 1, IF i + batchSize < Len(es) THEN i + batchSize
                                                        ELSE Len(es))>>
         \o Partition(es, batchSize, i + batchSize)
    ELSE <<>>

\* parseInt(process.env.EMAILS_BATCH_SIZE) || default
BatchSizeOf(setting, default) == IF setting = 0 THEN default ELSE setting

\* batchSummaries.map(batch => batch.summary)  (joined by the separator)
RECURSIVE CombinedContent(_)
CombinedContent(batchSummaries) ==
    IF batchSummaries = <<>> THEN <<>>
    ELSE <<Head(batchSummaries).summary>> \o CombinedContent(Tail(batchSummaries))

----------------------------------------------------------------------------
(* createDailySummary.  The steps of one invocation are the requests it   *)
(* awaits: the Digest lookup, the message query, the provider calls of    *)
(* processBatches and generateCombinedSummary (which touch no stored      *)
(* state), the Digest save and the marking update.                        *)

\* What a run's history records beside its calls: the Digest that existed
\* for the date when the run was entered, the number of fetched messages and
\* of batches, the batches whose provider call failed, the number of batch
\* summaries handed to the merge call, whether the provider failed the
\* categorization call / the merge call, whether save / the marking update was
\* rejected, and the _id of the Digest the run itself saved.
NoTrace == [existedAtStart |-> 0, fetched |-> 0, batchCount |-> 0,
            failedBatches |-> {}, mergeLen |-> 0, catFailed |-> FALSE,
            mergeFailed |-> FALSE, saveRejected |-> FALSE,
            markRejected |-> FALSE, saved |-> 0]

IdleRun ==
    [pc |-> "idle", startDate |-> 0, endDate |-> 0, emails |-> <<>>,
     batches |-> <<>>, i |-> 0, batchSummaries |-> <<>>,
     mergeInput |-> <<>>, topicCategories |-> <<>>, content |-> ErrorText,
     outcome |-> "none", result |-> 0, calls |-> <<>>, trace |-> NoTrace]

\* number of calls of one kind a run has made
RECURSIVE CountCalls(_, _)
CountCalls(calls, kind) ==
    IF calls = <<>> THEN 0
    ELSE (IF Head(calls) = kind THEN 1 ELSE 0) + CountCalls(Tail(calls), kind)

\* the invocation is over: its locals are gone, its outcome is what the
\* caller sees ("digest" with the _id, "null", or "error" for a rejection)
Finish(r, outcome, result) ==
    [IdleRun EXCEPT !.pc = "done", !.startDate = r.startDate,
                    !.outcome = outcome, !.result = result,
                    !.calls = r.calls, !.trace = r.trace]

\* CheckStep without the early return: the lookup result is ignored
CheckStep_NoReturn(r, existing) ==
    [r EXCEPT !.calls = Append(@, "findOne"), !.pc = "fetch"]

\* const existingSummary = await Summary.findOne({ date: startDate });
\* if (existingSummary) return existingSummary
CheckStep(r, existing) ==
    LET r1 == [r EXCEPT !.calls = Append(@, "findOne")] IN
    IF existing # 0 THEN Finish(r1, "digest", existing)
    ELSE [r1 EXCEPT !.pc = "fetch"]

\* entry: startDate / endDate are the bounds of the day of `date`
EnterRun(date, existing) ==
    [IdleRun EXCEPT !.pc = "check",
                    !.startDate = StartOfDay(date),
                    !.endDate = EndOfDay(date),
                    !.trace.existedAtStart = existing]

Start(p, date) ==
    /\ run[p].pc \in {"idle", "done"}
    /\ \A q \in Procs : q < p => run[q].pc # "idle"
    /\ invocations < MaxInvocations
    /\ invocations' = invocations + 1
    /\ LET existing == FindSummaryByDate(StartOfDay(date)) IN
       run' = [run EXCEPT ![p] = CheckStep(EnterRun(date, existing), existing)]
    /\ UNCHANGED <<now, openaiModule, apiKeyValid, envBatchSize, emails,
                   summaries, script, scriptRuns>>
    /\ UNCHANGED <<distVars, fnVars>>
    /\ UNCHANGED serviceVars

\* FetchStep without the emptiness test: an empty result is processed too
FetchStep_NoEmptyCheck(r, fetched) ==
    [r EXCEPT !.calls = Append(@, "find"), !.trace.fetched = Len(fetched),
              !.pc = "generate", !.emails = fetched]

\* const emails = await getEmailsForSummary(startDate, endDate);
\* if (emails.length === 0) return null
FetchStep(r, fetched) ==
    LET r1 == [r EXCEPT !.calls = Append(@, "find"),
                        !.trace.fetched = Len(fetched)]
    IN IF Len(fetched) = 0 THEN Finish(r1, "null", 0)
       ELSE [r1 EXCEPT !.pc = "generate", !.emails = fetched]

Fetch(p) ==
    /\ run[p].pc = "fetch"
    /\ \E fetched \in SortedByReceivedAt(
                        MatchingUnsummarized(run[p].startDate, run[p].endDate)) :
          run' = [run EXCEPT ![p] = FetchStep(@, fetched)]
    /\ UNCHANGED <<now, openaiModule, apiKeyValid, envBatchSize, emails,
                   summaries, invocations, script, scriptRuns>>
    /\ UNCHANGED <<distVars, fnVars>>
    /\ UNCHANGED serviceVars

\* whether the provider failed a call that was actually made (the mock
\* branch of the fallback implementation makes no call)
ProviderFailed(backendOk) ==
    ~backendOk /\ (openaiModule = "throwing" \/ apiKeyValid)

\* one turn of `for (const batch of batches)`: generateSummary(batchContent);
\* a rejection is logged and the loop goes on with the next batch
BatchStep(r, backendOk) ==
    LET g == GenerateSummary(r.batches[r.i], backendOk) IN
    [r EXCEPT !.batchSummaries =
                  IF g.threw THEN @
                  ELSE Append(@, [emails |-> r.batches[r.i], summary |-> g.text]),
              !.trace.failedBatches =
                  IF ProviderFailed(backendOk) THEN @ \cup {r.i} ELSE @,
              !.calls = Append(@, "generateSummary"),
              !.i = @ + 1]

RECURSIVE BatchLoop(_, _)
BatchLoop(r, oks) ==
    IF r.i > Len(r.batches) THEN r
    ELSE BatchLoop(BatchStep(r, oks[r.i]), oks)

\* processBatches(preparedEmails, batchSize); oks[k] tells whether the
\* provider answers the call for batch k
ProcessBatches(r, oks, batchSize) ==
    LET bs == Partition(r.emails, batchSize, 0)
    IN BatchLoop([r EXCEPT !.batches = bs, !.i = 1,
                           !.trace.batchCount = Len(bs)], oks)

\* generateCombinedSummary, first half: combinedContent, then categorizeEmails;
\* a rejection is logged and the categories stay empty
CategorizeStep(r, backendOk) ==
    LET c == CategorizeEmails(backendOk) IN
    [r EXCEPT !.mergeInput = CombinedContent(r.batchSummaries),
              !.trace.mergeLen = Len(r.batchSummaries),
              !.trace.catFailed = ProviderFailed(backendOk),
              !.topicCategories = IF c.threw THEN <<>> ELSE ParseCategories(c.text),
              !.calls = Append(@, "categorizeEmails")]

\* generateCombinedSummary, second half: the final generateSummary call;
\* a rejection is rethrown and ends createDailySummary in its catch
MergeStep(r, backendOk) ==
    LET g == GenerateSummary(r.mergeInput, backendOk)
        r1 == [r EXCEPT !.calls = Append(@, "generateSummary"),
                        !.trace.mergeFailed = ProviderFailed(backendOk)]
    IN IF g.threw THEN Finish(r1, "error", 0)
       ELSE [r1 EXCEPT !.pc = "save", !.content = g.text]

\* GenerateCombinedSummary that makes the final generateSummary call before
\* the categorizeEmails call
GenerateCombinedSummary_MergeFirst(r, catOk, mergeOk) ==
    LET m == MergeStep([r EXCEPT !.mergeInput =
                                     CombinedContent(r.batchSummaries)],
                       mergeOk)
    IN IF m.pc = "done" THEN m ELSE CategorizeStep(m, catOk)

GenerateCombinedSummary(r, catOk, mergeOk) ==
    MergeStep(CategorizeStep(r, catOk), mergeOk)

Generate(p) ==
    /\ run[p].pc = "generate"
    /\ \E oks \in [1..Len(run[p].emails) -> BOOLEAN], catOk, mergeOk \in BOOLEAN :
          run' = [run EXCEPT ![p] =
                    GenerateCombinedSummary(
                        ProcessBatches(@, oks,
                            BatchSizeOf(envBatchSize, DefaultBatchSize)),
                        catOk, mergeOk)]
    /\ UNCHANGED <<now, openaiModule, apiKeyValid, envBatchSize, emails,
                   summaries, invocations, script, scriptRuns>>
    /\ UNCHANGED <<distVars, fnVars>>
    /\ UNCHANGED serviceVars

\* SaveStep with the rejection swallowed: the run goes on to the marking update
SaveStep_MarkAnyway(r, duplicate, newId) ==
    [r EXCEPT !.calls = Append(@, "save"), !.pc = "mark",
              !.trace.saveRejected = duplicate,
              !.trace.saved = IF duplicate THEN 0 ELSE newId]

\* await summary.save(): a duplicate date is rejected (unique index) and the
\* rejection is rethrown by the catch of createDailySummary
SaveStep(r, duplicate, newId) ==
    LET r1 == [r EXCEPT !.calls = Append(@, "save")] IN
    IF duplicate
    THEN Finish([r1 EXCEPT !.trace.saveRejected = TRUE], "error", 0)
    ELSE [r1 EXCEPT !.pc = "mark", !.trace.saved = newId]

Save(p) ==
    /\ run[p].pc = "save"
    /\ LET dup == DuplicateDate(run[p].startDate) IN
       /\ run' = [run EXCEPT ![p] = SaveStep(@, dup, Len(summaries) + 1)]
       /\ summaries' =
             IF dup THEN summaries
             ELSE Append(summaries,
                         NewSummary(run[p].startDate, run[p].content,
                                    run[p].topicCategories, run[p].emails,
                                    "none"))
    /\ UNCHANGED <<now, openaiModule, apiKeyValid, envBatchSize, emails,
                   invocations, script, scriptRuns>>
    /\ UNCHANGED <<distVars, fnVars>>
    /\ UNCHANGED serviceVars

\* await markEmailsAsSummarized(emails.map(email => email._id)); the store
\* may reject the update, and the rejection is rethrown; return summary
MarkStep(r, storeOk) ==
    LET r1 == [r EXCEPT !.calls = Append(@, "markEmailsAsSummarized")] IN
    IF storeOk THEN Finish(r1, "digest", r.trace.saved)
    ELSE Finish([r1 EXCEPT !.trace.markRejected = TRUE], "error", 0)

Mark(p) ==
    /\ run[p].pc = "mark"
    /\ \E storeOk \in BOOLEAN :
          /\ run' = [run EXCEPT ![p] = MarkStep(@, storeOk)]
          /\ emails' = IF storeOk THEN MarkSummarized(Range(run[p].emails))
                       ELSE emails
    /\ UNCHANGED <<now, openaiModule, apiKeyValid, envBatchSize, summaries,
                   invocations, script, scriptRuns>>
    /\ UNCHANGED <<distVars, fnVars>>
    /\ UNCHANGED serviceVars

----------------------------------------------------------------------------
(* The custom-time-window summary script (main): its own copies of the    *)
(* batch and merge functions, a window of 7:15 am to 6:45 am the next day *)
(* around the current time, and a Digest dated with the current time.     *)

\* getEmailsForCustomTimeWindow: startDate of the window for `t` = now
WindowStart(t) ==
    LET s0 == StartOfDay(t) + WindowStartMinute
        s1 == IF t % MinutesPerDay < WindowStartMinute
              THEN s0 - MinutesPerDay ELSE s0
        e1 == StartOfDay(s1) + MinutesPerDay + WindowEndMinute
    IN IF t > e1 THEN s1 + MinutesPerDay ELSE s1

\* endDate of the window: the day after startDate at 6:45 am
WindowEnd(t) == StartOfDay(WindowStart(t)) + MinutesPerDay + WindowEndMinute

\* const emails = await getEmailsForCustomTimeWindow();
\* if (emails.length === 0) return
ScriptFetch ==
    /\ script.pc \in {"idle", "done"}
    /\ scriptRuns < MaxScriptRuns
    /\ scriptRuns' = scriptRuns + 1
    /\ \E fetched \in SortedByReceivedAt(
                        MatchingWindow(WindowStart(now), WindowEnd(now))) :
          script' = FetchStep([IdleRun EXCEPT !.pc = "fetch",
                                              !.startDate = WindowStart(now),
                                              !.endDate = WindowEnd(now)],
                              fetched)
    /\ UNCHANGED <<now, openaiModule, apiKeyValid, envBatchSize, emails,
                   summaries, run, invocations>>
    /\ UNCHANGED <<distVars, fnVars>>
    /\ UNCHANGED serviceVars

\* processEmailBatches; if (batchSummaries.length === 0) return;
\* createCombinedSummary (a rejection is caught and logged by main)
ScriptGenerateStep(r, oks, catOk, mergeOk) ==
    LET r1 == ProcessBatches(r, oks,
                             BatchSizeOf(envBatchSize, ScriptDefaultBatchSize))
    IN IF Len(r1.batchSummaries) = 0 THEN Finish(r1, "null", 0)
       ELSE GenerateCombinedSummary(r1, catOk, mergeOk)

ScriptGenerate ==
    /\ script.pc = "generate"
    /\ \E oks \in [1..Len(script.emails) -> BOOLEAN], catOk, mergeOk \in BOOLEAN :
          script' = ScriptGenerateStep(script, oks, catOk, mergeOk)
    /\ UNCHANGED <<now, openaiModule, apiKeyValid, envBatchSize, emails,
                   summaries, run, invocations, scriptRuns>>
    /\ UNCHANGED <<distVars, fnVars>>
    /\ UNCHANGED serviceVars

\* saveSummaryToDatabase, first half: new Summary({date: now, ...}).save()
ScriptSave ==
    /\ script.pc = "save"
    /\ LET dup == DuplicateDate(now) IN
       /\ script' = SaveStep(script, dup, Len(summaries) + 1)
       /\ summaries' =
             IF dup THEN summaries
             ELSE Append(summaries,
                         NewSummary(now, script.content, script.topicCategories,
                                    script.emails, "customTimeWindow"))
    /\ UNCHANGED <<now, openaiModule, apiKeyValid, envBatchSize, emails,
                   run, invocations, scriptRuns>>
    /\ UNCHANGED <<distVars, fnVars>>
    /\ UNCHANGED serviceVars

\* saveSummaryToDatabase, second half: Email.updateMany({_id: {$in: emailIds}},
\* {$set: {isSummarized: true}})
ScriptMark ==
    /\ script.pc = "mark"
    /\ \E storeOk \in BOOLEAN :
          /\ script' = MarkStep(script, storeOk)
          /\ emails' = IF storeOk THEN MarkSummarized(Range(script.emails))
                       ELSE emails
    /\ UNCHANGED <<now, openaiModule, apiKeyValid, envBatchSize, summaries,
                   run, invocations, scriptRuns>>
    /\ UNCHANGED <<distVars, fnVars>>
    /\ UNCHANGED serviceVars

----------------------------------------------------------------------------
(* Mail delivery (services/notificationService sendEmail, in both         *)
(* implementations the repository holds).  providerOk tells whether the   *)
(* mail provider accepts the message.                                      *)

\* useMockTransport once initializeEmailService has run (sendEmail runs it
\* first): false with a RESEND_API_KEY, true without one
UseMockTransport == ~resendApiKey

\* sendEmail of the nodemailer implementation: a provider failure is logged
\* and rethrown
SendEmailNodemailer(providerOk) ==
    [threw |-> ~providerOk, delivered |-> providerOk]

\* sendEmail of the Resend implementation: the mock transport sends nothing
\* and succeeds; a provider failure is rethrown in production only, elsewhere
\* a mock success response is returned
SendEmailResend(providerOk) ==
    IF UseMockTransport THEN [threw |-> FALSE, delivered |-> FALSE]
    ELSE IF providerOk THEN [threw |-> FALSE, delivered |-> TRUE]
    ELSE IF nodeEnv # "production" THEN [threw |-> FALSE, delivered |-> FALSE]
    ELSE [threw |-> TRUE, delivered |-> FALSE]

SendEmail(providerOk) ==
    IF notificationModule = "nodemailer" THEN SendEmailNodemailer(providerOk)
    ELSE SendEmailResend(providerOk)

\* whether the mail provider failed a send that was actually attempted
DeliveryFailed(providerOk) ==
    ~providerOk /\ (notificationModule = "nodemailer" \/ ~UseMockTransport)

----------------------------------------------------------------------------
(* distributeSummary.  The steps of one invocation are the requests it    *)
(* awaits: Summary.findById, sendEmail, summary.save.                     *)

\* the distribution fields of a Digest document
DistributionFields(doc) ==
    [isDistributed |-> doc.isDistributed, distributedAt |-> doc.distributedAt,
     distributionRecipients |-> doc.distributionRecipients]

NoDistribution ==
    [isDistributed |-> FALSE, distributedAt |-> NoDate,
     distributionRecipients |-> <<>>]

\* What an invocation's history records: the lookup found no Digest; the
\* Digest was loaded with isDistributed set; no recipient was configured;
\* sendEmail was called; the mail provider failed the send; the save was
\* rejected; the invocation wrote the distribution fields.
NoDistTrace ==
    [notFound |-> FALSE, loadedDistributed |-> FALSE, notConfigured |-> FALSE,
     sendCalled |-> FALSE, deliveryFailed |-> FALSE, saveRejected |-> FALSE,
     wrote |-> FALSE]

IdleDist ==
    [pc |-> "idle", summaryId |-> 0, summary |-> NoDistribution,
     outcome |-> "none", trace |-> NoDistTrace]

\* the invocation is over: outcome "digest" (the loaded document is returned)
\* or "error" (the rejection is logged and rethrown)
FinishDist(r, outcome) ==
    [IdleDist EXCEPT !.pc = "done", !.summaryId = r.summaryId,
                     !.outcome = outcome, !.trace = r.trace]

\* LoadStep without the isDistributed test
LoadStep_NoDistributedCheck(r, found, doc) ==
    IF ~found THEN FinishDist([r EXCEPT !.trace.notFound = TRUE], "error")
    ELSE IF recipientEmail = ""
    THEN FinishDist([r EXCEPT !.trace.notConfigured = TRUE], "error")
    ELSE [r EXCEPT !.pc = "send", !.summary = DistributionFields(doc),
                   !.trace.loadedDistributed = doc.isDistributed,
                   !.trace.sendCalled = TRUE]

\* LoadStep without the recipient test
LoadStep_NoRecipientCheck(r, found, doc) ==
    IF ~found THEN FinishDist([r EXCEPT !.trace.notFound = TRUE], "error")
    ELSE IF doc.isDistributed
    THEN FinishDist([r EXCEPT !.trace.loadedDistributed = TRUE], "digest")
    ELSE [r EXCEPT !.pc = "send", !.summary = DistributionFields(doc),
                   !.trace.notConfigured = (recipientEmail = ""),
                   !.trace.sendCalled = TRUE]

\* const summary = await Summary.findById(summaryId);
\* if (!summary) throw; if (summary.isDistributed) return summary;
\* if (!recipientEmail) throw; ...; sendEmail({to: recipientEmail, ...})
LoadStep(r, found, doc) ==
    IF ~found THEN FinishDist([r EXCEPT !.trace.notFound = TRUE], "error")
    ELSE IF doc.isDistributed
    THEN FinishDist([r EXCEPT !.trace.loadedDistributed = TRUE], "digest")
    ELSE IF recipientEmail = ""
    THEN FinishDist([r EXCEPT !.trace.notConfigured = TRUE], "error")
    ELSE [r EXCEPT !.pc = "send", !.summary = DistributionFields(doc),
                   !.trace.sendCalled = TRUE]

\* distributeSummary(summaryId) up to the call of sendEmail
Distribute(d, summaryId) ==
    /\ dist[d].pc \in {"idle", "done"}
    /\ \A e \in DistProcs : e < d => dist[e].pc # "idle"
    /\ distCalls < MaxDistCalls
    /\ distCalls' = distCalls + 1
    /\ LET found == summaryId \in 1..Len(summaries)
           r == LoadStep([IdleDist EXCEPT !.summaryId = summaryId], found,
                         IF found THEN summaries[summaryId] ELSE NoDistribution)
       IN /\ dist' = [dist EXCEPT ![d] = r]
          /\ sendCalls' = IF r.pc = "send"
                          THEN [sendCalls EXCEPT ![summaryId] = @ + 1]
                          ELSE sendCalls
    /\ UNCHANGED <<recipientEmail, notificationModule, nodeEnv, resendApiKey,
                   newsletter>>
    /\ UNCHANGED <<pipelineVars, fnVars>>
    /\ UNCHANGED serviceVars

\* SentStep that sets the distribution fields whatever sendEmail did
SentStep_MarkAnyway(r, providerOk, date) ==
    [r EXCEPT !.pc = "save",
              !.trace.deliveryFailed = DeliveryFailed(providerOk),
              !.summary = [isDistributed |-> TRUE, distributedAt |-> date,
                           distributionRecipients |-> <<recipientEmail>>]]

\* await sendEmail(...) is over: a rejection ends the invocation; otherwise
\* summary.isDistributed = true; summary.distributedAt = new Date();
\* summary.distributionRecipients = [recipientEmail]; summary.save() is called
SentStep(r, providerOk, date) ==
    LET r1 == [r EXCEPT !.trace.deliveryFailed = DeliveryFailed(providerOk)] IN
    IF SendEmail(providerOk).threw THEN FinishDist(r1, "error")
    ELSE [r1 EXCEPT !.pc = "save",
                    !.summary = [isDistributed |-> TRUE, distributedAt |-> date,
                                 distributionRecipients |-> <<recipientEmail>>]]

Sent(d) ==
    /\ dist[d].pc = "send"
    /\ \E providerOk \in BOOLEAN :
          dist' = [dist EXCEPT ![d] = SentStep(@, providerOk, now)]
    /\ UNCHANGED <<recipientEmail, notificationModule, nodeEnv, resendApiKey,
                   distCalls, sendCalls, newsletter>>
    /\ UNCHANGED <<pipelineVars, fnVars>>
    /\ UNCHANGED serviceVars

\* the document after summary.save() wrote the modified distribution fields
WithDistribution(doc, fields) ==
    [doc EXCEPT !.isDistributed = fields.isDistributed,
                !.distributedAt = fields.distributedAt,
                !.distributionRecipients = fields.distributionRecipients]

\* await summary.save() is over; return summary (a rejection is rethrown)
SavedStep(r, storeOk) ==
    IF storeOk THEN FinishDist([r EXCEPT !.trace.wrote = TRUE], "digest")
    ELSE FinishDist([r EXCEPT !.trace.saveRejected = TRUE], "error")

Saved(d) ==
    /\ dist[d].pc = "save"
    /\ \E storeOk \in BOOLEAN :
          /\ dist' = [dist EXCEPT ![d] = SavedStep(@, storeOk)]
          /\ summaries' =
                IF storeOk
                THEN [summaries EXCEPT ![dist[d].summaryId] =
                         WithDistribution(@, dist[d].summary)]
                ELSE summaries
    /\ UNCHANGED <<now, openaiModule, apiKeyValid, envBatchSize, emails, run,
                   invocations, script, scriptRuns>>
    /\ UNCHANGED <<recipientEmail, notificationModule, nodeEnv, resendApiKey,
                   distCalls, sendCalls, newsletter>>
    /\ UNCHANGED fnVars
    /\ UNCHANGED serviceVars

----------------------------------------------------------------------------
(* The newsletter-summary script (main): it saves a Digest dated with the *)
(* current time and distributes it itself, to the configured recipient or *)
(* to its built-in default address.                                        *)

IdleNewsletter == [pc |-> "idle", summaryId |-> 0]

\* .sort({receivedAt: -1}): every order of the set that descends in receivedAt
SortedByReceivedAtDesc(S) ==
    {s \in [1..Cardinality(S) -> S] :
        /\ \A a, b \in 1..Cardinality(S) : a # b => s[a] # s[b]
        /\ \A a, b \in 1..Cardinality(S) :
              a < b => emails[s[a]].receivedAt >= emails[s[b]].receivedAt}

\* getNewslettersFromDb and generateNewsletterSummary: the stored messages of
\* the last daysBack days sent by a newsletter source (any of the stored
\* messages may be one), categorizeEmails, the merge call, and
\* new Summary({date: new Date(), ...}).save()
NewsletterSummary ==
    /\ newsletter.pc = "idle"
    /\ openaiModule = "fallback"
    /\ \E S \in SUBSET MatchingWindow(now - NewsletterDaysBack * MinutesPerDay, now) :
          /\ S # {}
          /\ \E fetched \in SortedByReceivedAtDesc(S), catOk, mergeOk \in BOOLEAN :
                LET dup == DuplicateDate(now)
                    cats == ParseCategories(
                                CategorizeEmailsFallback(catOk, apiKeyValid).text)
                    text == GenerateSummaryFallback(<<fetched>>, mergeOk,
                                                    apiKeyValid).text
                IN /\ summaries' =
                         IF dup THEN summaries
                         ELSE Append(summaries,
                                     NewSummary(now, text, cats, fetched,
                                                "none"))
                   /\ newsletter' =
                         IF dup THEN [pc |-> "done", summaryId |-> 0]
                         ELSE [pc |-> "send", summaryId |-> Len(summaries) + 1]
    /\ UNCHANGED <<now, openaiModule, apiKeyValid, envBatchSize, emails, run,
                   invocations, script, scriptRuns>>
    /\ UNCHANGED <<recipientEmail, notificationModule, nodeEnv, resendApiKey,
                   dist, distCalls, sendCalls>>
    /\ UNCHANGED fnVars
    /\ UNCHANGED serviceVars

\* const recipientEmail = args.email || SUMMARY_RECIPIENT_EMAIL || default
NewsletterRecipient ==
    IF recipientEmail = "" THEN DefaultRecipient ELSE recipientEmail

\* sendSummaryEmail(summary): sendEmail, then the distribution fields are set
\* and saved; a rejection of either is logged by main
NewsletterSend ==
    /\ newsletter.pc = "send"
    /\ \E providerOk, storeOk \in BOOLEAN :
          summaries' =
             IF ~SendEmail(providerOk).threw /\ storeOk
             THEN [summaries EXCEPT ![newsletter.summaryId] =
                      WithDistribution(@,
                         [isDistributed |-> TRUE, distributedAt |-> now,
                          distributionRecipients |-> <<NewsletterRecipient>>])]
             ELSE summaries
    /\ newsletter' = [newsletter EXCEPT !.pc = "done"]
    /\ UNCHANGED <<now, openaiModule, apiKeyValid, envBatchSize, emails, run,
                   invocations, script, scriptRuns>>
    /\ UNCHANGED <<recipientEmail, notificationModule, nodeEnv, resendApiKey,
                   dist, distCalls, sendCalls>>
    /\ UNCHANGED fnVars
    /\ UNCHANGED serviceVars

----------------------------------------------------------------------------
(* Calls of the pure parts: the partition loop of processBatches, the     *)
(* category parsing of generateCombinedSummary, and the two functions of  *)
(* config/openai called on their own.                                      *)

NoPartition ==
    [emails |-> <<>>, batchSize |-> 1, called |-> FALSE, batches |-> <<>>]

\* the message lists processBatches is applied to: distinct messages, any order
MessageLists ==
    UNION {{s \in [1..n -> 1..MaxListLen] :
                \A a, b \in 1..n : a # b => s[a] # s[b]} : n \in 0..MaxListLen}

\* processBatches(emails, batchSize), lines 21-24: the batches it forms
PartitionCall ==
    /\ ~partition.called
    /\ partition' = [partition EXCEPT
                        !.called = TRUE,
                        !.batches = Partition(partition.emails,
                                              partition.batchSize, 0)]
    /\ UNCHANGED <<parse, openaiCalls>>
    /\ UNCHANGED <<pipelineVars, distVars>>
    /\ UNCHANGED serviceVars

NoParse == [text |-> <<>>, called |-> FALSE, categories |-> <<>>]

TextAlphabet == {"a", ":", " ", "\n"}

\* the text of the specification's example, one letter per word
ExampleText == <<"W", ":", " ", "m", "\n", "P", ":", " ", "v">>

Texts ==
    UNION {[1..n -> TextAlphabet] : n \in 0..MaxTextLen}
       \cup {ExampleText, CategorizationText, MockCategorizationText}

\* topicCategories = categorization.split('\n').filter(...).map(...)
ParseCall ==
    /\ ~parse.called
    /\ parse' = [parse EXCEPT !.called = TRUE,
                              !.categories = ParseCategories(parse.text)]
    /\ UNCHANGED <<partition, openaiCalls>>
    /\ UNCHANGED <<pipelineVars, distVars>>
    /\ UNCHANGED serviceVars

\* a call of generateSummary(prompt) by any caller: whether the provider
\* failed it, whether it was rejected, and the kind of text it returned
GenerateSummaryCall ==
    /\ Len(openaiCalls) < MaxOpenaiCalls
    /\ \E input \in {<<>>, <<1>>}, backendOk \in BOOLEAN :
          openaiCalls' =
             Append(openaiCalls,
                    [fn |-> "generateSummary",
                     providerFailed |-> ProviderFailed(backendOk),
                     threw |-> GenerateSummary(input, backendOk).threw,
                     text |-> IF GenerateSummary(input, backendOk).threw
                              THEN "none"
                              ELSE GenerateSummary(input, backendOk).text.kind])
    /\ UNCHANGED <<partition, parse>>
    /\ UNCHANGED <<pipelineVars, distVars>>
    /\ UNCHANGED serviceVars

\* a call of categorizeEmails(emails) by any caller
CategorizeEmailsCall ==
    /\ Len(openaiCalls) < MaxOpenaiCalls
    /\ \E backendOk \in BOOLEAN :
          openaiCalls' =
             Append(openaiCalls,
                    [fn |-> "categorizeEmails",
                     providerFailed |-> ProviderFailed(backendOk),
                     threw |-> CategorizeEmails(backendOk).threw,
                     text |-> IF CategorizeEmails(backendOk).threw THEN "none"
                              ELSE IF CategorizeEmails(backendOk).text
                                         = CategorizationText
                              THEN "categories" ELSE "mock"])
    /\ UNCHANGED <<partition, parse>>
    /\ UNCHANGED <<pipelineVars, distVars>>
    /\ UNCHANGED serviceVars

----------------------------------------------------------------------------
(* Calls of the emailService store operations on their own *)

NoQuery == [called |-> FALSE, startDate |-> 0, endDate |-> 0, result |-> <<>>]

\* getEmailsForSummary(startDate, endDate): the sorted list Email.find returns
GetEmailsForSummaryCall ==
    /\ \E startDate \in TimePoints, endDate \in TimePoints :
          \E result \in SortedByReceivedAt(
                            MatchingUnsummarized(startDate, endDate)) :
             query' = [called |-> TRUE, startDate |-> startDate,
                       endDate |-> endDate, result |-> result]
    /\ UNCHANGED <<update, mailbox, emailDocs, fetch, fetchRuns, route, job, loop>>
    /\ UNCHANGED <<pipelineVars, distVars, fnVars>>

\* an _id that no stored message has (new mongoose.Types.ObjectId())
NoSuchId == 0

NoUpdate ==
    [called |-> FALSE, ids |-> {}, modifiedCount |-> 0, repeated |-> FALSE]

\* ModifiedCount that counts the matched documents (result.matchedCount)
ModifiedCount_CountsMatched(ids) ==
    Cardinality({m \in MsgIds : m \in ids /\ emails[m].stored})

\* result.modifiedCount of the updateMany: the matches whose flag it changed
ModifiedCount(ids) ==
    Cardinality({m \in MsgIds : /\ m \in ids
                                /\ emails[m].stored
                                /\ ~emails[m].isSummarized})

\* markEmailsAsSummarized(emailIds): the update and the number it returns
MarkEmailsAsSummarizedCall ==
    /\ \E ids \in SUBSET ({m \in MsgIds : emails[m].stored} \cup {NoSuchId}) :
          /\ emails' = MarkSummarized(ids)
          /\ update' = [called |-> TRUE, ids |-> ids,
                        modifiedCount |-> ModifiedCount(ids),
                        repeated |-> update.called /\ update.ids = ids]
    /\ UNCHANGED <<query, mailbox, emailDocs, fetch, fetchRuns, route, job, loop>>
    /\ UNCHANGED <<now, openaiModule, apiKeyValid, envBatchSize, summaries,
                   run, invocations, script, scriptRuns>>
    /\ UNCHANGED <<distVars, fnVars>>

----------------------------------------------------------------------------
(* fetchEmails *)

FetchProcs == 1..NumFetch
GmailIds == 1..MaxMailbox

NoFetchTrace == [allStoredAtList |-> FALSE, skipped |-> {}, failed |-> {}]

IdleFetch ==
    [pc |-> "idle", messages |-> <<>>, i |-> 1, emails |-> <<>>,
     outcome |-> "none", trace |-> NoFetchTrace]

\* DuplicateMessageId without the unique index: no save is ever rejected
DuplicateMessageId_NoIndex(id) == FALSE

\* the unique index on messageId (models/email.js): save of a new document
DuplicateMessageId(id) == id \in Range(emailDocs)

\* Email.findOne({ messageId: message.id }): whether there is a match
ExistingEmail(id) == id \in Range(emailDocs)

\* the for-of loop moves to the next listed message, or ends: return emails
NextMessage(r) ==
    IF r.i < Len(r.messages)
    THEN [r EXCEPT !.pc = "find", !.i = r.i + 1]
    ELSE [r EXCEPT !.pc = "done", !.outcome = "returned"]

\* catch (error) { logger.error(...); continue; }
MessageFailed(r) ==
    NextMessage([r EXCEPT !.trace.failed = @ \cup {r.messages[r.i]}])

\* fetchEmails entered: gmail.users.messages.list is awaited
FetchStart(f) ==
    /\ fetch[f].pc \in {"idle", "done"}
    /\ fetchRuns < MaxFetchRuns
    /\ \A g \in FetchProcs : g < f => fetch[g].pc # "idle"
    /\ fetch' = [fetch EXCEPT ![f] = [IdleFetch EXCEPT !.pc = "list"]]
    /\ fetchRuns' = fetchRuns + 1
    /\ UNCHANGED <<query, update, mailbox, emailDocs, route, job, loop>>
    /\ UNCHANGED <<pipelineVars, distVars, fnVars>>

\* the listing settled: rejected (rethrown), empty (return []), or the loop
\* starts with the first listed message
ListedStep(r, listOk, messages) ==
    IF ~listOk THEN [r EXCEPT !.pc = "done", !.outcome = "error"]
    ELSE IF Len(messages) = 0
    THEN [r EXCEPT !.pc = "done", !.outcome = "returned"]
    ELSE [r EXCEPT !.pc = "find", !.messages = messages, !.i = 1,
                   !.trace.allStoredAtList =
                       \A k \in 1..Len(messages) : ExistingEmail(messages[k])]

FetchListed(f) ==
    /\ fetch[f].pc = "list"
    /\ \E listOk \in BOOLEAN :
          fetch' = [fetch EXCEPT ![f] = ListedStep(fetch[f], listOk, mailbox)]
    /\ UNCHANGED <<query, update, mailbox, emailDocs, fetchRuns, route, job, loop>>
    /\ UNCHANGED <<pipelineVars, distVars, fnVars>>

\* Email.findOne settled: skip the message if it exists, else get its details
FoundStep(r, existing, findOk) ==
    IF ~findOk THEN MessageFailed(r)
    ELSE IF existing
    THEN NextMessage([r EXCEPT !.trace.skipped = @ \cup {r.messages[r.i]}])
    ELSE [r EXCEPT !.pc = "get"]

FetchFound(f) ==
    /\ fetch[f].pc = "find"
    /\ \E findOk \in BOOLEAN :
          fetch' = [fetch EXCEPT ![f] =
                      FoundStep(fetch[f],
                                ExistingEmail(fetch[f].messages[fetch[f].i]),
                                findOk)]
    /\ UNCHANGED <<query, update, mailbox, emailDocs, fetchRuns, route, job, loop>>
    /\ UNCHANGED <<pipelineVars, distVars, fnVars>>

\* gmail.users.messages.get settled and extractEmailData ran: newEmail.save()
\* is awaited, or the failure is caught and the loop continues
GotStep(r, getOk) ==
    IF getOk THEN [r EXCEPT !.pc = "save"] ELSE MessageFailed(r)

FetchGot(f) ==
    /\ fetch[f].pc = "get"
    /\ \E getOk \in BOOLEAN :
          fetch' = [fetch EXCEPT ![f] = GotStep(fetch[f], getOk)]
    /\ UNCHANGED <<query, update, mailbox, emailDocs, fetchRuns, route, job, loop>>
    /\ UNCHANGED <<pipelineVars, distVars, fnVars>>

\* newEmail.save() settled: rejected (caught, continue) or stored and pushed
SavedEmailStep(r, saved) ==
    IF saved
    THEN NextMessage([r EXCEPT !.emails = Append(@, r.messages[r.i])])
    ELSE MessageFailed(r)

FetchSaved(f) ==
    /\ fetch[f].pc = "save"
    /\ \E storeOk \in BOOLEAN :
          LET id == fetch[f].messages[fetch[f].i]
              saved == storeOk /\ ~DuplicateMessageId(id)
          IN  /\ emailDocs' = IF saved THEN Append(emailDocs, id)
                              ELSE emailDocs
              /\ fetch' = [fetch EXCEPT ![f] = SavedEmailStep(fetch[f], saved)]
    /\ UNCHANGED <<query, update, mailbox, fetchRuns, route, job, loop>>
    /\ UNCHANGED <<pipelineVars, distVars, fnVars>>

\* a message arrives in the mailbox: the listing grows by its id
MailArrives ==
    /\ Len(mailbox) < MaxMailbox
    /\ mailbox' = Append(mailbox, Len(mailbox) + 1)
    /\ UNCHANGED <<query, update, emailDocs, fetch, fetchRuns, route, job, loop>>
    /\ UNCHANGED <<pipelineVars, distVars, fnVars>>

----------------------------------------------------------------------------
(* POST /api/summaries/generate *)

NoData == [summaryId |-> 0, date |-> NoDate, emailCount |-> 0]

IdleRoute == [requests |-> 0, responses |-> 0, status |-> 0, data |-> NoData]

\* GenerateResponse that answers 200 for a null result too
GenerateResponse_NullIsSuccess(r) ==
    IF r.outcome = "error" THEN [status |-> 500, data |-> NoData]
    ELSE [status |-> 200,
          data |-> IF r.result = 0 THEN NoData
                   ELSE [summaryId |-> r.result,
                         date |-> summaries[r.result].date,
                         emailCount |-> summaries[r.result].emailCount]]

\* the response of the handler for the way createDailySummary settled:
\* catch -> 500; !summary -> 404; else res.json({..., data: {summaryId,
\* date, emailCount}}) (status 200)
GenerateResponse(r) ==
    IF r.outcome = "error" THEN [status |-> 500, data |-> NoData]
    ELSE IF r.result = 0 THEN [status |-> 404, data |-> NoData]
    ELSE [status |-> 200,
          data |-> [summaryId |-> r.result,
                    date |-> summaries[r.result].date,
                    emailCount |-> summaries[r.result].emailCount]]

\* a request arrives; the handler calls createDailySummary(date)
PostGenerate ==
    /\ route.requests = route.responses
    /\ route.requests < MaxInvocations
    /\ route' = [route EXCEPT !.requests = @ + 1]
    /\ UNCHANGED <<query, update, mailbox, emailDocs, fetch, fetchRuns, job, loop>>
    /\ UNCHANGED <<pipelineVars, distVars, fnVars>>

\* createDailySummary settled: the handler sends its response
GenerateResponded ==
    /\ route.responses < route.requests
    /\ invocations = route.requests
    /\ run[1].pc = "done"
    /\ route' = [route EXCEPT !.responses = @ + 1,
                              !.status = GenerateResponse(run[1]).status,
                              !.data = GenerateResponse(run[1]).data]
    /\ UNCHANGED <<query, update, mailbox, emailDocs, fetch, fetchRuns, job, loop>>
    /\ UNCHANGED <<pipelineVars, distVars, fnVars>>

----------------------------------------------------------------------------
(* startEmailSummaryJob, started by the cron schedule or by POST /job/run *)

Triggers == {"cron", "route"}

\* pc: where the job stands; responded: POST /job/run has sent its response;
\* fetchedAt: the clock when fetchEmails settled; yesterday: the argument of
\* createDailySummary; summaryId: the argument of distributeSummary;
\* outcome: how the job settled; handler: what its caller did with that
IdleJob ==
    [pc |-> "idle", trigger |-> "none", responded |-> FALSE,
     fetchedAt |-> NoDate, yesterday |-> NoDate, summaryId |-> 0,
     calls |-> <<>>, outcome |-> "none", handler |-> "none"]

\* HandlerSettled of a caller that awaits the job outside any try block
HandlerSettled_NoCatch(trigger, failed) ==
    IF failed THEN "unhandled" ELSE "returned"

\* try { await startEmailSummaryJob(); } catch (error) { logger.error(...) }
\* of both callers: a rejection is logged and goes no further
HandlerSettled(trigger, failed) ==
    IF failed THEN "caught" ELSE "returned"

\* logger.info('Email summary job completed successfully')
JobCompleted(j) ==
    [j EXCEPT !.pc = "done", !.outcome = "completed",
              !.handler = HandlerSettled(j.trigger, FALSE)]

\* catch (error) { logger.error(...); throw error; }
JobFailed(j) ==
    [j EXCEPT !.pc = "done", !.outcome = "failed",
              !.handler = HandlerSettled(j.trigger, TRUE)]

\* the caller starts the job: POST /job/run sends its response first; the
\* job calls fetchEmails
JobRun(trigger) ==
    /\ job.pc = "idle"
    /\ job' = [job EXCEPT !.pc = "fetch", !.trigger = trigger,
                          !.responded = (trigger = "route"),
                          !.calls = <<"fetchEmails">>]
    /\ UNCHANGED <<query, update, mailbox, emailDocs, fetch, fetchRuns, route, loop>>
    /\ UNCHANGED <<pipelineVars, distVars, fnVars>>

\* fetchEmails settled: yesterday = new Date() minus one day, then
\* createDailySummary(yesterday)
JobFetchedStep(j, fetchOk, date) ==
    IF fetchOk
    THEN [j EXCEPT !.pc = "create", !.fetchedAt = date,
                   !.yesterday = date - MinutesPerDay,
                   !.calls = Append(@, "createDailySummary")]
    ELSE JobFailed(j)

JobFetched ==
    /\ job.pc = "fetch"
    /\ \E fetchOk \in BOOLEAN : job' = JobFetchedStep(job, fetchOk, now)
    /\ UNCHANGED <<query, update, mailbox, emailDocs, fetch, fetchRuns, route, loop>>
    /\ UNCHANGED <<pipelineVars, distVars, fnVars>>

\* JobCreatedStep that calls distributeSummary whatever was returned
JobCreatedStep_AlwaysDistributes(j, r) ==
    IF r.outcome = "error" THEN JobFailed(j)
    ELSE [j EXCEPT !.pc = "distribute", !.summaryId = r.result,
                   !.calls = Append(@, "distributeSummary")]

\* createDailySummary settled: if (summary) distributeSummary(summary._id)
JobCreatedStep(j, r) ==
    IF r.outcome = "error" THEN JobFailed(j)
    ELSE IF r.result = 0 THEN JobCompleted(j)
    ELSE [j EXCEPT !.pc = "distribute", !.summaryId = r.result,
                   !.calls = Append(@, "distributeSummary")]

JobCreated ==
    /\ job.pc = "create"
    /\ invocations > 0
    /\ run[1].pc = "done"
    /\ job' = JobCreatedStep(job, run[1])
    /\ UNCHANGED <<query, update, mailbox, emailDocs, fetch, fetchRuns, route, loop>>
    /\ UNCHANGED <<pipelineVars, distVars, fnVars>>

\* distributeSummary settled
JobDistributedStep(j, d) ==
    IF d.outcome = "error" THEN JobFailed(j) ELSE JobCompleted(j)

JobDistributed ==
    /\ job.pc = "distribute"
    /\ distCalls > 0
    /\ dist[1].pc = "done"
    /\ job' = JobDistributedStep(job, dist[1])
    /\ UNCHANGED <<query, update, mailbox, emailDocs, fetch, fetchRuns, route, loop>>
    /\ UNCHANGED <<pipelineVars, distVars, fnVars>>

----------------------------------------------------------------------------
(* The partition loop of processBatches under every EMAILS_BATCH_SIZE *)

\* parseInt(process.env.EMAILS_BATCH_SIZE) as an integer; 0 stands for unset,
\* not a number, and zero
EnvSettings == (0 - MaxNegativeSetting)..MaxBatchSize

IdleLoop ==
    [pc |-> "idle", setting |-> 0, batchSize |-> 0, n |-> 0, i |-> 0,
     turns |-> 0]

\* createDailySummary reaches processBatches(preparedEmails, batchSize) with
\* n fetched messages: let i = 0
LoopEnter ==
    /\ loop.pc = "idle"
    /\ \E setting \in EnvSettings, n \in 1..MaxListLen :
          loop' = [pc |-> "loop", setting |-> setting,
                   batchSize |-> BatchSizeOf(setting, DefaultBatchSize),
                   n |-> n, i |-> 0, turns |-> 0]
    /\ UNCHANGED <<query, update, mailbox, emailDocs, fetch, fetchRuns, route,
                   job>>
    /\ UNCHANGED <<pipelineVars, distVars, fnVars>>

\* i < emails.length: batches.push(emails.slice(i, i + batchSize));
\* i += batchSize
LoopTurn ==
    /\ loop.pc = "loop"
    /\ loop.i < loop.n
    /\ loop.turns < MaxTurns
    /\ loop' = [loop EXCEPT !.i = @ + loop.batchSize, !.turns = @ + 1]
    /\ UNCHANGED <<query, update, mailbox, emailDocs, fetch, fetchRuns, route,
                   job>>
    /\ UNCHANGED <<pipelineVars, distVars, fnVars>>

\* the loop condition fails: the batches are formed
LoopExit ==
    /\ loop.pc = "loop"
    /\ ~(loop.i < loop.n)
    /\ loop' = [loop EXCEPT !.pc = "done"]
    /\ UNCHANGED <<query, update, mailbox, emailDocs, fetch, fetchRuns, route,
                   job>>
    /\ UNCHANGED <<pipelineVars, distVars, fnVars>>

----------------------------------------------------------------------------
(* Environment: the clock and the arrival of stored messages *)

Tick ==
    /\ \E t \in TimePoints : t > now /\ now' = t
    /\ UNCHANGED <<openaiModule, apiKeyValid, envBatchSize, emails, summaries,
                   run, invocations, script, scriptRuns>>
    /\ UNCHANGED <<distVars, fnVars>>
    /\ UNCHANGED serviceVars

\* fetchEmails: const newEmail = new Email(emailData); await newEmail.save()
StoreEmail(m, t) ==
    /\ ~emails[m].stored
    /\ \A k \in MsgIds : k < m => emails[k].stored
    /\ t <= now
    /\ emails' = [emails EXCEPT ![m] =
                    [stored |-> TRUE, receivedAt |-> t, isSummarized |-> FALSE]]
    /\ UNCHANGED <<now, openaiModule, apiKeyValid, envBatchSize, summaries,
                   run, invocations, script, scriptRuns>>
    /\ UNCHANGED <<distVars, fnVars>>
    /\ UNCHANGED serviceVars

----------------------------------------------------------------------------

\* the stores are empty and nothing has been called
InitStores ==
    /\ now = 0
    /\ emails = [m \in MsgIds |-> NoEmail]
    /\ summaries = <<>>
    /\ run = [p \in Procs |-> IdleRun]
    /\ invocations = 0
    /\ script = IdleRun
    /\ scriptRuns = 0
    /\ dist = [d \in DistProcs |-> IdleDist]
    /\ distCalls = 0
    /\ sendCalls = [id \in DigestIdSpace |-> 0]
    /\ newsletter = IdleNewsletter
    /\ openaiCalls = <<>>
    /\ query = NoQuery
    /\ update = NoUpdate
    /\ mailbox = <<>>
    /\ emailDocs = <<>>
    /\ fetch = [f \in FetchProcs |-> IdleFetch]
    /\ fetchRuns = 0
    /\ route = IdleRoute
    /\ job = IdleJob
    /\ loop = IdleLoop

\* the loaded config/openai implementation and its key
InitOpenai ==
    /\ openaiModule \in {"throwing", "fallback"}
    /\ apiKeyValid \in BOOLEAN
    /\ openaiModule = "throwing" => apiKeyValid

\* the loaded notificationService implementation and its environment
MailConfigs ==
    {[module |-> "nodemailer", env |-> "production", key |-> FALSE],
     [module |-> "resend", env |-> "production", key |-> TRUE],
     [module |-> "resend", env |-> "development", key |-> TRUE],
     [module |-> "resend", env |-> "development", key |-> FALSE]}

InitMail(c) ==
    /\ notificationModule = c.module
    /\ nodeEnv = c.env
    /\ resendApiKey = c.key

Init ==
    /\ InitStores
    /\ InitOpenai
    /\ envBatchSize \in BatchSizeSettings
    /\ recipientEmail = ""
    /\ InitMail([module |-> "nodemailer", env |-> "production", key |-> FALSE])
    /\ partition = NoPartition
    /\ parse = NoParse

Next ==
    \/ \E p \in Procs, date \in TimePoints : Start(p, date)
    \/ \E p \in Procs : Fetch(p)
    \/ \E p \in Procs : Generate(p)
    \/ \E p \in Procs : Save(p)
    \/ \E p \in Procs : Mark(p)
    \/ Tick
    \/ \E m \in MsgIds, t \in TimePoints : StoreEmail(m, t)

Spec == Init /\ [][Next]_vars

\* one invocation of createDailySummary together with the custom-time-window
\* script
NextWithScript ==
    \/ \E date \in TimePoints : invocations = 0 /\ Start(1, date)
    \/ Fetch(1)
    \/ Generate(1)
    \/ Save(1)
    \/ Mark(1)
    \/ Tick
    \/ \E m \in MsgIds, t \in TimePoints : StoreEmail(m, t)
    \/ ScriptFetch
    \/ ScriptGenerate
    \/ ScriptSave
    \/ ScriptMark

SpecWithScript == Init /\ [][NextWithScript]_vars

\* distribution: one createDailySummary invocation and the newsletter script
\* as the sources of Digests, and the distributeSummary callers, all within
\* one instant of the clock
InitDistribution ==
    /\ InitStores
    /\ openaiModule = "fallback"
    /\ apiKeyValid = TRUE
    /\ envBatchSize = 0
    /\ recipientEmail \in Recipients
    /\ \E c \in MailConfigs : InitMail(c)
    /\ partition = NoPartition
    /\ parse = NoParse

NextDistribution ==
    \/ \E date \in TimePoints : invocations = 0 /\ Start(1, date)
    \/ Fetch(1)
    \/ Generate(1)
    \/ Save(1)
    \/ Mark(1)
    \/ \E t \in TimePoints : StoreEmail(1, t)
    \/ NewsletterSummary
    \/ NewsletterSend
    \/ \E d \in DistProcs, summaryId \in 1..(Len(summaries) + 1) :
          Distribute(d, summaryId)
    \/ \E d \in DistProcs : Sent(d)
    \/ \E d \in DistProcs : Saved(d)

SpecDistribution == InitDistribution /\ [][NextDistribution]_vars

\* processBatches applied to every message list and batch size of the bounds
InitPartition ==
    /\ InitStores
    /\ openaiModule = "throwing" /\ apiKeyValid = TRUE
    /\ envBatchSize = 0
    /\ recipientEmail = ""
    /\ InitMail([module |-> "nodemailer", env |-> "production", key |-> FALSE])
    /\ partition \in {[NoPartition EXCEPT !.emails = s, !.batchSize = b] :
                          s \in MessageLists, b \in 1..MaxBatchSize}
    /\ parse = NoParse

SpecPartition == InitPartition /\ [][PartitionCall]_vars

\* the category parsing applied to every text of the bounds
InitParse ==
    /\ InitStores
    /\ openaiModule = "throwing" /\ apiKeyValid = TRUE
    /\ envBatchSize = 0
    /\ recipientEmail = ""
    /\ InitMail([module |-> "nodemailer", env |-> "production", key |-> FALSE])
    /\ partition = NoPartition
    /\ parse \in {[NoParse EXCEPT !.text = t] : t \in Texts}

SpecParse == InitParse /\ [][ParseCall]_vars

\* generateSummary and categorizeEmails called on their own
NextOpenai ==
    \/ GenerateSummaryCall
    \/ CategorizeEmailsCall

SpecOpenai == Init /\ [][NextOpenai]_vars

\* one configuration, for the operations that do not depend on it
InitService ==
    /\ InitStores
    /\ openaiModule = "throwing" /\ apiKeyValid = TRUE
    /\ envBatchSize = 0
    /\ recipientEmail = ""
    /\ InitMail([module |-> "nodemailer", env |-> "production", key |-> FALSE])
    /\ partition = NoPartition
    /\ parse = NoParse

\* getEmailsForSummary and markEmailsAsSummarized called on their own while
\* messages arrive
NextEmailService ==
    \/ GetEmailsForSummaryCall
    \/ MarkEmailsAsSummarizedCall
    \/ Tick
    \/ \E m \in MsgIds, t \in TimePoints : StoreEmail(m, t)

SpecEmailService == InitService /\ [][NextEmailService]_vars

\* fetchEmails invocations, concurrent and successive, while mail arrives
NextFetch ==
    \/ \E f \in FetchProcs : FetchStart(f)
    \/ \E f \in FetchProcs : FetchListed(f)
    \/ \E f \in FetchProcs : FetchFound(f)
    \/ \E f \in FetchProcs : FetchGot(f)
    \/ \E f \in FetchProcs : FetchSaved(f)
    \/ MailArrives

SpecFetch == InitService /\ [][NextFetch]_vars

\* successive POST /generate requests, each running createDailySummary
NextRoute ==
    \/ PostGenerate
    \/ \E date \in TimePoints :
          invocations < route.requests /\ Start(1, date)
    \/ Fetch(1)
    \/ Generate(1)
    \/ Save(1)
    \/ Mark(1)
    \/ GenerateResponded
    \/ Tick
    \/ \E m \in MsgIds, t \in TimePoints : StoreEmail(m, t)

SpecRoute == Init /\ [][NextRoute]_vars

\* one run of the job, with the calls it makes
InitJob ==
    /\ InitStores
    /\ InitOpenai
    /\ envBatchSize = 0
    /\ recipientEmail \in Recipients
    /\ \E c \in MailConfigs : InitMail(c)
    /\ partition = NoPartition
    /\ parse = NoParse

NextJob ==
    \/ \E trigger \in Triggers : JobRun(trigger)
    \/ JobFetched
    \/ job.pc = "create" /\ invocations = 0 /\ Start(1, job.yesterday)
    \/ Fetch(1)
    \/ Generate(1)
    \/ Save(1)
    \/ Mark(1)
    \/ JobCreated
    \/ job.pc = "distribute" /\ distCalls = 0 /\ Distribute(1, job.summaryId)
    \/ Sent(1)
    \/ Saved(1)
    \/ JobDistributed
    \/ Tick
    \/ \E m \in MsgIds, t \in TimePoints : StoreEmail(m, t)

SpecJob == InitJob /\ [][NextJob]_vars

\* the partition loop for every setting and message count of the bounds
NextLoop ==
    \/ LoopEnter
    \/ LoopTurn
    \/ LoopExit

SpecLoop == InitService /\ [][NextLoop]_vars

----------------------------------------------------------------------------
(* Properties *)

Done(p) == run[p].pc = "done"
Called(p, kind) == CountCalls(run[p].calls, kind) > 0
DigestIds == 1..Len(summaries)
DigestsHolding(m) == {k \in DigestIds : m \in Range(summaries[k].emailIds)}

\* C1: a createDailySummary invocation entered when a Digest already exists
\* for the start of day of its date returns exactly that Digest after the
\* lookup alone (no message query, no generateSummary, no categorizeEmails, no
\* save, no marking); and any two invocations that return a Digest for the
\* same date return the same one.
C1_IdempotentReentry ==
    /\ \A p \in Procs :
          Done(p) /\ run[p].trace.existedAtStart # 0 =>
             /\ run[p].outcome = "digest"
             /\ run[p].result = run[p].trace.existedAtStart
             /\ summaries[run[p].result].date = run[p].startDate
             /\ run[p].calls = <<"findOne">>
    /\ \A p, q \in Procs :
          /\ Done(p) /\ Done(q)
          /\ run[p].outcome = "digest" /\ run[q].outcome = "digest"
          /\ run[p].startDate = run[q].startDate
          => run[p].result = run[q].result

\* C1 witness: one invocation created the Digest of a date and another,
\* entered afterwards for that date, returned it.
C1_Witness ==
    \E p, q \in Procs :
       /\ p # q /\ Done(p) /\ Done(q)
       /\ run[p].trace.saved # 0 /\ run[p].outcome = "digest"
       /\ run[q].trace.existedAtStart = run[p].trace.saved
       /\ run[q].outcome = "digest"

OneDigestPerCalendarDate ==
    \A j, k \in DigestIds :
       j # k => StartOfDay(summaries[j].date) # StartOfDay(summaries[k].date)

RejectedSaveStoresNothing ==
    \A p \in Procs :
       /\ run[p].pc = "save" /\ run'[p].pc # "save"
       /\ \E k \in DigestIds : summaries[k].date = run[p].startDate
       => /\ summaries' = summaries
          /\ run'[p].outcome = "error"
          /\ run'[p].trace.saveRejected

\* C2: under every interleaving of createDailySummary runs no two Digests
\* have the same calendar date, and a save for a date that is already present
\* is rejected and leaves the collection as it was.
C2_OneDigestPerDate ==
    [](OneDigestPerCalendarDate) /\ [][RejectedSaveStoresNothing]_vars

\* C2 witness: a run's save was rejected while another run's Digest for the
\* same date is stored.
C2_Witness ==
    \E p, q \in Procs :
       /\ Done(p) /\ run[p].trace.saveRejected
       /\ run[q].trace.saved # 0
       /\ summaries[run[q].trace.saved].date = run[p].startDate

\* C3 (the claim as stated): a run whose save was rejected for a duplicate
\* date does not end in an error but returns the Digest that exists for the
\* date.
C3_DuplicateSaveReturnsExisting ==
    \A p \in Procs :
       Done(p) /\ run[p].trace.saveRejected =>
          /\ run[p].outcome = "digest"
          /\ run[p].result = FindSummaryByDate(run[p].startDate)

\* C4 (the claim as stated): when the provider fails the merge call the run
\* ends in an error, having saved no Digest and made no marking call.
C4_MergeFailureIsFatal ==
    \A p \in Procs :
       run[p].trace.mergeFailed =>
          /\ Done(p) /\ run[p].outcome = "error"
          /\ run[p].trace.saved = 0
          /\ ~Called(p, "save") /\ ~Called(p, "markEmailsAsSummarized")

\* C5 (the claim as stated): when the provider fails the call of every batch
\* of a run that fetched messages, the run saves no Digest and marks no
\* message.
C5_AllBatchesFailNoDigest ==
    \A p \in Procs :
       /\ run[p].trace.batchCount > 0
       /\ Cardinality(run[p].trace.failedBatches) = run[p].trace.batchCount
       => /\ run[p].pc \notin {"save", "mark"}
          /\ run[p].trace.saved = 0
          /\ ~Called(p, "save") /\ ~Called(p, "markEmailsAsSummarized")

\* C6 (the claim as stated): when the provider fails the call of exactly one
\* of K >= 2 batches, the failed batch contributes no entry: the merge call
\* receives K-1 batch summaries, those of the other batches in batch order;
\* and the run saves a Digest unless the merge call or the save itself fails.
C6_OneBatchFailureIsolated ==
    \A p \in Procs :
       /\ run[p].trace.batchCount >= 2
       /\ Cardinality(run[p].trace.failedBatches) = 1
       => /\ run[p].trace.mergeLen = run[p].trace.batchCount - 1
          /\ run[p].pc \in {"save", "mark"} =>
                LET f == CHOOSE k \in run[p].trace.failedBatches : TRUE IN
                \A j \in 1..Len(run[p].batchSummaries) :
                   run[p].batchSummaries[j].emails =
                      run[p].batches[IF j < f THEN j ELSE j + 1]
          /\ Done(p) /\ ~run[p].trace.mergeFailed /\ ~run[p].trace.saveRejected
             => run[p].trace.saved # 0

\* C7: a message is flagged isSummarized only if a stored Digest lists it; a
\* run calls the marking update only after its own save succeeded, and a run
\* whose save was rejected never calls it.
C7_MarkedOnlyAfterSave ==
    /\ \A m \in MsgIds : emails[m].isSummarized => DigestsHolding(m) # {}
    /\ \A p \in Procs :
          Called(p, "markEmailsAsSummarized") =>
             /\ run[p].trace.saved # 0
             /\ ~run[p].trace.saveRejected
    /\ \A p \in Procs :
          run[p].pc = "mark" => run[p].trace.saved \in DigestIds

\* C7 witness: a message is flagged and listed by a Digest while another run,
\* whose save was rejected, has ended.
C7_Witness ==
    /\ \E m \in MsgIds : emails[m].isSummarized /\ DigestsHolding(m) # {}
    /\ \E p \in Procs : Done(p) /\ run[p].trace.saveRejected

\* C8 (the claim as stated): every message identifier is listed by at most
\* one stored Digest.
C8_NoMessageInTwoDigests ==
    \A m \in MsgIds : Cardinality(DigestsHolding(m)) <= 1

\* C9 (the claim as stated): a run whose marking update was rejected after
\* its Digest was saved still yields that Digest, which stays stored.
C9_MarkFailureNotSurfaced ==
    \A p \in Procs :
       Done(p) /\ run[p].trace.markRejected =>
          /\ run[p].trace.saved \in DigestIds
          /\ run[p].outcome = "digest"
          /\ run[p].result = run[p].trace.saved

\* C10: a run whose message query finds nothing returns null having made the
\* lookup and the query only (no generateSummary, no categorizeEmails, no
\* save, no marking); and no Digest created by createDailySummary has zero
\* source messages.
C10_NoDataShortCircuit ==
    /\ \A p \in Procs :
          Called(p, "find") /\ run[p].trace.fetched = 0 =>
             /\ Done(p) /\ run[p].outcome = "null"
             /\ run[p].calls = <<"findOne", "find">>
             /\ run[p].trace.saved = 0
    /\ \A k \in DigestIds :
          summaries[k].metadata = "none" =>
             summaries[k].emailCount > 0 /\ Len(summaries[k].emailIds) > 0

\* C10 witness: a run has returned null while a message of another day is
\* stored.
C10_Witness ==
    \E p \in Procs :
       /\ Done(p) /\ run[p].outcome = "null"
       /\ \E m \in MsgIds : emails[m].stored

\* C11 (the claim as stated): when the provider fails the categorization call
\* the run still makes the merge call right after it, the failure alone never
\* ends the run in an error, and the Digest the run saves has an empty
\* topicCategories list.
C11_CategorizerFailureDegrades ==
    \A p \in Procs :
       run[p].trace.catFailed =>
          /\ \E k \in 1..(Len(run[p].calls) - 1) :
                /\ run[p].calls[k] = "categorizeEmails"
                /\ run[p].calls[k + 1] = "generateSummary"
          /\ run[p].pc = "save" => run[p].topicCategories = <<>>
          /\ run[p].trace.saved # 0 =>
                summaries[run[p].trace.saved].topicCategories = <<>>
          /\ /\ Done(p) /\ ~run[p].trace.mergeFailed
             /\ ~run[p].trace.saveRejected /\ ~run[p].trace.markRejected
             => run[p].outcome = "digest"

EmailCountAndIdsAreTheFetched ==
    \A p \in Procs :
       /\ run[p].pc = "mark" =>
             /\ summaries[run[p].trace.saved].emailIds = run[p].emails
             /\ Len(run[p].emails) = run[p].trace.fetched
       /\ run[p].trace.saved # 0 =>
             /\ summaries[run[p].trace.saved].emailCount = run[p].trace.fetched
             /\ Len(summaries[run[p].trace.saved].emailIds) = run[p].trace.fetched

MarkTakesTheDigestList ==
    \A p \in Procs :
       run[p].pc = "mark" /\ run'[p].pc = "done" =>
          \/ run'[p].trace.markRejected /\ emails' = emails
          \/ /\ ~run'[p].trace.markRejected
             /\ \A m \in MsgIds :
                   emails'[m].isSummarized =
                      \/ emails[m].isSummarized
                      \/ m \in Range(summaries[run[p].trace.saved].emailIds)

\* C12: the Digest a run saves counts every fetched message whatever the
\* outcome of its batch: emailCount is the number of fetched messages,
\* emailIds is the fetched list (same length, same order), and the marking
\* update is made with exactly that list.
C12_DigestCountsAllFetched ==
    [](EmailCountAndIdsAreTheFetched) /\ [][MarkTakesTheDigestList]_vars

\* C12 witness: a run with two batches, one of which the provider failed, has
\* saved a Digest listing both messages and has marked both.
C12_Witness ==
    \E p \in Procs :
       /\ Done(p) /\ run[p].outcome = "digest"
       /\ run[p].trace.batchCount = 2
       /\ Cardinality(run[p].trace.failedBatches) = 1
       /\ run[p].trace.saved # 0
       /\ summaries[run[p].trace.saved].emailCount = 2
       /\ \A m \in Range(summaries[run[p].trace.saved].emailIds) :
             emails[m].isSummarized

----------------------------------------------------------------------------
(* Properties of distribution *)

DistDone(d) == dist[d].pc = "done"

LoadsDistributed(d, summaryId) ==
    /\ dist[d].pc \in {"idle", "done"}
    /\ dist'[d] # dist[d]
    /\ dist'[d].summaryId = summaryId
    /\ summaryId \in DigestIds
    /\ summaries[summaryId].isDistributed

DistributedIsNoOp ==
    \A d \in DistProcs, summaryId \in DigestIdSpace :
       LoadsDistributed(d, summaryId) =>
          /\ dist'[d].pc = "done" /\ dist'[d].outcome = "digest"
          /\ ~dist'[d].trace.sendCalled
          /\ sendCalls' = sendCalls
          /\ summaries' = summaries

ReturnedDigestIsDistributed ==
    \A d \in DistProcs :
       DistDone(d) /\ dist[d].outcome = "digest" =>
          /\ summaries[dist[d].summaryId].isDistributed
          /\ dist[d].trace.loadedDistributed => ~dist[d].trace.sendCalled

C15_AtMostOneDelivery ==
    \A summaryId \in DigestIdSpace : sendCalls[summaryId] <= 1

\* C16 (the claim as stated): when the mail provider fails the send of a
\* distributeSummary call, the call ends in an error and never writes the
\* distribution fields.
C16_DeliveryFailureLeavesDigest ==
    \A d \in DistProcs :
       dist[d].trace.deliveryFailed =>
          /\ DistDone(d) /\ dist[d].outcome = "error"
          /\ ~dist[d].trace.wrote

\* C17 (the claim as stated): a distributeSummary call made while no
\* recipient is configured, or for an identifier that matches no Digest, ends
\* in an error without calling sendEmail and without writing a Digest.
C17_ConfigOrLookupErrorNoEffect ==
    \A d \in DistProcs :
       /\ dist[d].pc # "idle"
       /\ recipientEmail = "" \/ dist[d].trace.notFound
       => /\ DistDone(d) /\ dist[d].outcome = "error"
          /\ ~dist[d].trace.sendCalled /\ ~dist[d].trace.wrote

NoEffectStep ==
    \A d \in DistProcs :
       /\ dist'[d] # dist[d]
       /\ dist'[d].trace.notFound \/ dist'[d].trace.notConfigured
       => summaries' = summaries /\ sendCalls' = sendCalls

NoEffectOutcome ==
    \A d \in DistProcs :
       /\ dist[d].trace.notFound \/ dist[d].trace.notConfigured
          => /\ DistDone(d) /\ dist[d].outcome = "error"
             /\ ~dist[d].trace.sendCalled /\ ~dist[d].trace.wrote
       /\ /\ dist[d].pc # "idle" /\ ~dist[d].trace.loadedDistributed
          /\ recipientEmail = "" \/ dist[d].summaryId \notin DigestIds
          => dist[d].trace.notFound \/ dist[d].trace.notConfigured

\* C17 (amended): a distributeSummary call for an identifier that matches no
\* Digest, or made while no recipient is configured for a Digest that is not
\* yet distributed, ends in an error without calling sendEmail and without
\* changing any Digest.  (An already distributed Digest is returned, without
\* an error, whether or not a recipient is configured.)
C17_ConfigOrLookupErrorNoEffect_Amended ==
    [](NoEffectOutcome) /\ [][NoEffectStep]_vars

\* C17 witness: with no recipient configured, one call has failed on a stored,
\* undistributed Digest and another on an identifier that matches no Digest.
C17_Witness ==
    \E d, e \in DistProcs :
       /\ DistDone(d) /\ DistDone(e)
       /\ dist[d].trace.notConfigured /\ dist[d].summaryId \in DigestIds
       /\ ~summaries[dist[d].summaryId].isDistributed
       /\ dist[e].trace.notFound

CoreFieldsKept ==
    \A k \in DigestIds :
       /\ k \in 1..Len(summaries')
       /\ summaries'[k].date = summaries[k].date
       /\ summaries'[k].content = summaries[k].content
       /\ summaries'[k].topicCategories = summaries[k].topicCategories
       /\ summaries'[k].emailCount = summaries[k].emailCount
       /\ summaries'[k].emailIds = summaries[k].emailIds
       /\ summaries[k].isDistributed => summaries'[k].isDistributed

DistributionWrittenOnce ==
    \A k \in DigestIds :
       Cardinality({d \in DistProcs :
                       dist[d].summaryId = k /\ dist[d].trace.wrote}) <= 1

----------------------------------------------------------------------------
(* Properties of the pure parts *)

RECURSIVE Concatenation(_)
Concatenation(seqs) ==
    IF seqs = <<>> THEN <<>> ELSE Head(seqs) \o Concatenation(Tail(seqs))

\* ceil(n / b) for b > 0
CeilDiv(n, b) == (n + b - 1) \div b

\* C13: for a list of N messages and a batch size B > 0 the partition loop of
\* processBatches forms ceil(N/B) batches (none when N = 0), every batch but
\* the last has B messages, the last has the N - B*(ceil(N/B)-1) that remain,
\* no batch is empty, every batch is the contiguous slice of the list at its
\* place, and the batches concatenated in order are the list.
C13_PartitionComplete ==
    partition.called =>
       LET N == Len(partition.emails)
           B == partition.batchSize
           bs == partition.batches
           K == Len(bs)
       IN /\ K = CeilDiv(N, B)
          /\ N = 0 => bs = <<>>
          /\ \A k \in 1..K :
                /\ Len(bs[k]) > 0
                /\ k < K => Len(bs[k]) = B
                /\ k = K => Len(bs[k]) = N - B * (K - 1)
                /\ \A j \in 1..Len(bs[k]) :
                      bs[k][j] = partition.emails[B * (k - 1) + j]
          /\ Concatenation(bs) = partition.emails

\* C13 witness: MaxListLen messages in an order other than ascending were
\* split into more than one batch, the last one shorter than the batch size.
C13_Witness ==
    /\ partition.called
    /\ Len(partition.emails) = MaxListLen
    /\ partition.emails[1] > partition.emails[2]
    /\ Len(partition.batches) > 1
    /\ Len(partition.batches[Len(partition.batches)]) < partition.batchSize

\* C19 (the claim as stated): every generateSummary / categorizeEmails call
\* whose provider call failed was rejected, and returned no text.
C19_BackendFailuresSurface ==
    \A k \in 1..Len(openaiCalls) :
       openaiCalls[k].providerFailed =>
          openaiCalls[k].threw /\ openaiCalls[k].text = "none"

\* the places of the line breaks of a text, with both ends
Breaks(t) == {0, Len(t) + 1} \cup {k \in 1..Len(t) : t[k] = "\n"}

\* the line of a text that starts after the break at place a
LineAfter(t, a) ==
    LET b == CHOOSE x \in Breaks(t) :
                x > a /\ \A y \in Breaks(t) : y > a => x <= y
    IN SubSeq(t, a + 1, b - 1)

\* a line without its leading and trailing spaces
Stripped(l) ==
    LET inked == {k \in 1..Len(l) : l[k] # " "} IN
    IF inked = {} THEN <<>>
    ELSE SubSeq(l, CHOOSE x \in inked : \A y \in inked : x <= y,
                   CHOOSE x \in inked : \A y \in inked : x >= y)

\* the starts (breaks) of the non-blank lines of a text
NonBlankStarts(t) ==
    {a \in Breaks(t) \ {Len(t) + 1} : Stripped(LineAfter(t, a)) # <<>>}

\* the part of a line before its first ':' (the whole line without one)
BeforeColon(l) ==
    LET colons == {k \in 1..Len(l) : l[k] = ":"} IN
    IF colons = {} THEN l
    ELSE SubSeq(l, 1, (CHOOSE x \in colons : \A y \in colons : x <= y) - 1)

\* C20: the parsed list has one entry per non-blank line of the text, in line
\* order; the description of an entry is its line without surrounding blanks
\* and its name is the part before the first ':' without surrounding blanks,
\* or the description when the line has no ':'.
C20_CategoryParsing ==
    parse.called =>
       LET t == parse.text
           starts == NonBlankStarts(t)
           cats == parse.categories
       IN /\ Len(cats) = Cardinality(starts)
          /\ \A a \in starts :
                LET place == Cardinality({x \in starts : x <= a})
                    line == LineAfter(t, a)
                IN /\ cats[place].description = Stripped(line)
                   /\ cats[place].name = Stripped(BeforeColon(line))

\* C20 witness: the example of the specification ("Work: meetings\nPersonal:
\* vacation", one letter per word) gave the categories Work and Personal.
C20_Witness ==
    /\ parse.called
    /\ parse.text = ExampleText
    /\ parse.categories =
          <<[name |-> <<"W">>, description |-> <<"W", ":", " ", "m">>],
            [name |-> <<"P">>, description |-> <<"P", ":", " ", "v">>]>>

----------------------------------------------------------------------------
(* getEmailsForSummary and markEmailsAsSummarized *)

\* the stored messages of [startDate, endDate] that are not summarized
Unsummarized(startDate, endDate) ==
    {m \in MsgIds : /\ emails[m].stored
                    /\ startDate <= emails[m].receivedAt
                    /\ emails[m].receivedAt <= endDate
                    /\ emails[m].isSummarized = FALSE}

\* C21: getEmailsForSummary(start, end) returns exactly the stored messages
\* with receivedAt in [start, end] and isSummarized false, each once, in
\* ascending receivedAt order (the empty list when there is none), and it
\* changes neither the Email nor the Summary collection.
C21_GetEmailsForSummary ==
    [][query' # query =>
        LET res == query'.result
            S == Unsummarized(query'.startDate, query'.endDate)
        IN  /\ Range(res) = S
            /\ Len(res) = Cardinality(S)
            /\ \A a, b \in 1..Len(res) :
                  a < b => emails[res[a]].receivedAt <= emails[res[b]].receivedAt
            /\ (S = {} => res = <<>>)
            /\ emails' = emails
            /\ summaries' = summaries]_vars

\* a call that returned one message while the other stored message of the
\* range, received earlier, is summarized
C21_Witness ==
    /\ query.called
    /\ Len(query.result) = 1
    /\ ~emails[query.result[1]].isSummarized
    /\ \E m \in MsgIds \ Range(query.result) :
          /\ emails[m].stored /\ emails[m].isSummarized
          /\ query.startDate <= emails[m].receivedAt
          /\ emails[m].receivedAt <= query.endDate
          /\ emails[m].receivedAt < emails[query.result[1]].receivedAt

----------------------------------------------------------------------------
(* fetchEmails *)

FetchDone(f) == fetch[f].pc = "done"

\* no two documents of the Email collection share a messageId
UniqueMessageIds ==
    \A a, b \in 1..Len(emailDocs) : a # b => emailDocs[a] # emailDocs[b]

\* a listed message found stored is passed over: nothing is fetched or saved
\* for it, and the loop goes on to the next message
StoredIsSkipped ==
    \A f \in FetchProcs :
        (/\ fetch[f].pc = "find"
         /\ fetch[f].messages[fetch[f].i] \in Range(emailDocs)
         /\ fetch'[f] # fetch[f])
        => /\ emailDocs' = emailDocs
           /\ fetch'[f].emails = fetch[f].emails
           /\ fetch'[f].pc # "get"
           /\ fetch'[f].outcome # "error"
           /\ IF fetch[f].i < Len(fetch[f].messages)
              THEN fetch'[f].pc = "find" /\ fetch'[f].i = fetch[f].i + 1
              ELSE fetch'[f].pc = "done"

\* a failure on one listed message leaves the loop running: once the listing
\* succeeded the call returns, and every listed message was then skipped,
\* added or failed on its own
FailureDoesNotStop ==
    \A f \in FetchProcs :
        /\ (fetch[f].pc \in {"find", "get", "save"}
               => fetch[f].outcome = "none")
        /\ (FetchDone(f) /\ Len(fetch[f].messages) > 0)
              => /\ fetch[f].outcome = "returned"
                 /\ fetch[f].i = Len(fetch[f].messages)
                 /\ fetch[f].trace.skipped \cup fetch[f].trace.failed
                       \cup Range(fetch[f].emails) = Range(fetch[f].messages)

\* a run whose listed messages were all stored when it listed them adds none
RerunAddsNothing ==
    \A f \in FetchProcs :
        /\ fetch[f].trace.allStoredAtList => fetch[f].emails = <<>>
        /\ \A k \in 1..Len(fetch[f].emails) :
              /\ fetch[f].emails[k] \in Range(emailDocs)
              /\ \A g \in FetchProcs :
                    \A j \in 1..Len(fetch[g].emails) :
                       fetch[g].emails[j] = fetch[f].emails[k]
                          => g = f /\ j = k

----------------------------------------------------------------------------
(* POST /api/summaries/generate *)

\* the last request has been answered
Answered == route.responses = route.requests /\ route.requests > 0

\* C24: POST /api/summaries/generate answers 200 with the summaryId, date
\* and emailCount of the Digest when createDailySummary returned one (newly
\* created or already existing), 404 when it returned null, and 500 when it
\* failed; every request whose createDailySummary call settled can be
\* answered, with one of these three statuses.
C24_GenerateRoute ==
    /\ route.status \in {0, 200, 404, 500}
    /\ route.responses <= route.requests
    /\ (route.responses < route.requests /\ invocations = route.requests
          /\ Done(1)) => ENABLED GenerateResponded
    /\ Answered =>
          /\ Done(1)
          /\ route.status # 0
          /\ run[1].outcome = "digest"
                => /\ route.status = 200
                   /\ route.data.summaryId = run[1].result
                   /\ route.data.summaryId \in DigestIds
                   /\ route.data.date = summaries[run[1].result].date
                   /\ route.data.emailCount
                         = summaries[run[1].result].emailCount
          /\ run[1].outcome = "null"
                => route.status = 404 /\ route.data = NoData
          /\ run[1].outcome = "error"
                => route.status = 500 /\ route.data = NoData

\* the second request was answered 200 with the Digest the first request
\* created
C24_Witness ==
    /\ Answered
    /\ route.responses = 2
    /\ route.status = 200
    /\ run[1].trace.existedAtStart = route.data.summaryId
    /\ route.data.emailCount > 0
----------------------------------------------------------------------------
(* startEmailSummaryJob *)

JobOrder == <<"fetchEmails", "createDailySummary", "distributeSummary">>

\* C25: a failure of startEmailSummaryJob, at whichever of its calls, is
\* caught and logged by the cron callback and by POST /job/run alike and
\* goes no further; POST /job/run has sent its success response before the
\* job makes its first call, whatever the job's outcome.
C25_JobFailuresCaught ==
    /\ job.handler \in {"none", "returned", "caught"}
    /\ (job.pc = "done") = (job.handler # "none")
    /\ job.outcome = "failed" => job.handler = "caught"
    /\ job.outcome = "completed" => job.handler = "returned"
    /\ (job.trigger = "route" /\ Len(job.calls) > 0) => job.responded
    /\ job.trigger = "cron" => ~job.responded

\* a job started by POST /job/run that failed in distributeSummary, after
\* the response was sent
C25_Witness ==
    /\ job.trigger = "route" /\ job.responded
    /\ job.outcome = "failed" /\ job.handler = "caught"
    /\ job.calls = JobOrder
    /\ dist[1].outcome = "error"

\* C28: startEmailSummaryJob calls fetchEmails, then createDailySummary for
\* the calendar day before the current one, then distributeSummary, in this
\* order; distributeSummary is called only when createDailySummary returned
\* a Digest, with the _id of that Digest, and not at all when the fetch or
\* the creation failed or no Digest was returned.
C28_JobOrder ==
    /\ job.calls = SubSeq(JobOrder, 1, Len(job.calls))
    /\ invocations > 0
          => /\ Len(job.calls) >= 2
             /\ run[1].startDate = StartOfDay(job.fetchedAt) - MinutesPerDay
    /\ (Len(job.calls) >= 2 /\ invocations = 0) => job.pc = "create"
    /\ Len(job.calls) = 3
          => /\ Done(1) /\ run[1].outcome = "digest"
             /\ job.summaryId = run[1].result
             /\ job.summaryId \in DigestIds
    /\ distCalls > 0
          => /\ Len(job.calls) = 3
             /\ dist[1].summaryId = run[1].result
    /\ (job.pc = "done" /\ Len(job.calls) = 1)
          => job.outcome = "failed" /\ invocations = 0 /\ distCalls = 0
    /\ (job.pc = "done" /\ Len(job.calls) = 2)
          => /\ Done(1) /\ distCalls = 0
             /\ run[1].outcome \in {"null", "error"}
             /\ (run[1].outcome = "error") = (job.outcome = "failed")

\* a job whose fetch settled at noon of day 1, which created the Digest of
\* day 0 and distributed it
C28_Witness ==
    /\ job.pc = "done" /\ job.outcome = "completed"
    /\ job.calls = JobOrder
    /\ job.fetchedAt = MinutesPerDay + 720
    /\ summaries[job.summaryId].date = 0
    /\ summaries[job.summaryId].isDistributed
    /\ run[1].trace.saved = job.summaryId
----------------------------------------------------------------------------
(* Order of the calls of one createDailySummary run *)

\* the calls of a run that formed K batches and went through to the end
ExpectedCalls(K) ==
    <<"findOne", "find">> \o [k \in 1..K |-> "generateSummary"]
        \o <<"categorizeEmails", "generateSummary", "save",
             "markEmailsAsSummarized">>

\* C26: within one createDailySummary run that formed K batches the calls
\* come one after the other in this order: the K batch generateSummary
\* calls, then categorizeEmails exactly once, then the merge generateSummary
\* call exactly once (K + 1 generateSummary calls in all), the Digest save
\* only after the merge call returned, and the marking update only after the
\* save succeeded.
C26_CallOrder ==
    \A p \in Procs :
        LET K == run[p].trace.batchCount
            c == run[p].calls
        IN  /\ c = SubSeq(ExpectedCalls(K), 1, Len(c))
            /\ K = 0 => Len(c) <= 2
            /\ K > 0 => /\ Len(c) >= K + 4
                        /\ CountCalls(c, "categorizeEmails") = 1
                        /\ CountCalls(c, "generateSummary") = K + 1
            /\ Called(p, "save")
                  => ~(openaiModule = "throwing" /\ run[p].trace.mergeFailed)
            /\ Called(p, "markEmailsAsSummarized")
                  => /\ run[p].trace.saved # 0
                     /\ ~run[p].trace.saveRejected

\* a run that formed two batches and went through to the marking update
C26_Witness ==
    \E p \in Procs :
        /\ Done(p)
        /\ run[p].trace.batchCount = 2
        /\ run[p].calls = ExpectedCalls(2)
----------------------------------------------------------------------------
(* createDailySummary on a date that already has a Digest *)

\* the _id of the Digest of the day of message m, 0 when there is none
DigestOfDayOf(m) == FindSummaryByDate(StartOfDay(emails[m].receivedAt))

\* an invocation entered while the Digest of its date exists returns that
\* Digest at once and writes nothing
EntryIsPureRead ==
    \A p \in Procs :
        (/\ run[p].pc \in {"idle", "done"}
         /\ run'[p] # run[p]
         /\ run'[p].trace.existedAtStart # 0)
        => /\ run'[p].pc = "done"
           /\ run'[p].outcome = "digest"
           /\ run'[p].result = run'[p].trace.existedAtStart
           /\ run'[p].calls = <<"findOne">>
           /\ emails' = emails
           /\ summaries' = summaries

\* a message of a day whose Digest exists enters no further Digest, and its
\* flag is touched only by the marking update of the run that saved that
\* Digest, for the messages the Digest lists
NoLaterAdoption ==
    \A m \in MsgIds :
        (emails[m].stored /\ DigestOfDayOf(m) # 0)
        => /\ {k \in 1..Len(summaries') : m \in Range(summaries'[k].emailIds)}
                 = DigestsHolding(m)
           /\ emails'[m] # emails[m]
                 => /\ m \in Range(summaries[DigestOfDayOf(m)].emailIds)
                    /\ \E p \in Procs :
                          /\ run[p].pc = "mark"
                          /\ run[p].trace.saved = DigestOfDayOf(m)
                          /\ run'[p].pc = "done"

\* C30: once a Digest exists for date D, every later createDailySummary
\* invocation for D is a pure read: it returns that Digest and leaves it and
\* every message's isSummarized flag unchanged; messages of day D that were
\* stored after the Digest or left unmarked by a failed marking update are
\* never added to any Digest by createDailySummary.
C30_ExistingDigestIsPureRead ==
    /\ [][EntryIsPureRead]_vars
    /\ [][NoLaterAdoption]_vars
    /\ [](\A p \in Procs : run[p].trace.existedAtStart # 0
                              => run[p].trace.saved = 0)

\* an invocation that returned the existing Digest of its date while one
\* listed message of that day was left unmarked and another message of that
\* day, stored later, is in no Digest
C30_Witness ==
    \E p \in Procs, m1 \in MsgIds, m2 \in MsgIds :
        /\ Done(p) /\ run[p].trace.existedAtStart # 0
        /\ summaries[run[p].result].date = run[p].startDate
        /\ emails[m1].stored /\ ~emails[m1].isSummarized
        /\ m1 \in Range(summaries[run[p].result].emailIds)
        /\ emails[m2].stored /\ ~emails[m2].isSummarized
        /\ StartOfDay(emails[m2].receivedAt) = run[p].startDate
        /\ DigestsHolding(m2) = {}
----------------------------------------------------------------------------
(* Digest dates, and the batch size *)

\* C27: every stored Digest, whichever code path saved it (createDailySummary,
\* the custom-time-window script, the newsletter script), has a date that is
\* the start of its calendar day, and no two Digests are of the same
\* calendar day.
C27_DigestDatesTruncated ==
    /\ \A k \in DigestIds : summaries[k].date = StartOfDay(summaries[k].date)
    /\ OneDigestPerCalendarDate

\* C29: for every EMAILS_BATCH_SIZE setting the batch size processBatches
\* uses is a positive integer, and its partition loop over N messages makes
\* at most N turns.
C29_BatchSizePositive ==
    loop.pc # "idle" => /\ loop.batchSize > 0
                        /\ loop.turns <= loop.n
====
